---- MODULE Spec2Model ----
(***************************************************************************)
(* Model of the Copilot log tracker: the ingestion pipeline                *)
(* (LogCollector, src/src/collector.js), the state store (StateManager,    *)
(* src/unnamed/part_001), the report writer (saveMetricsToJSON,            *)
(* src/src/parser.js), the reconciliation checker (HealthChecker,          *)
(* src/src/health-check.js) and the orchestration that drives them         *)
(* (src/src/extension.js).                                                 *)
(*                                                                         *)
(* The file system is part of the state.  A source log is a sequence of    *)
(* lines; one line stands for the text of the line and its newline and is  *)
(* one UTF-16 code unit long, so that content.length is the number of      *)
(* lines, while stat.size counts bytes and a line with non-ASCII text is   *)
(* two bytes long.                                                         *)
(*                                                                         *)
(* JavaScript runs a callback to completion: between two macrotasks (a     *)
(* timer firing, a command, the answer to a dialog) no other callback of   *)
(* the extension runs.  The awaits inside collectCopilotLogs up to its     *)
(* dialogs are on promises that are already settled, so the body of a run  *)
(* is one action; a run stays in progress while its dialog is open.        *)
(***************************************************************************)
EXTENDS Integers, Sequences, FiniteSets, TLC

\* ------------------------------------------------------------------ bounds
\* The clock stops at MaxTime: at most MaxTime - 1 modifications of source logs.
MaxTime == 4
\* A source log holds at most MaxLen lines.
MaxLen == 2
\* At most MaxPending dialogs of each kind are open at once.
MaxPending == 1
\* A source log that only grows holds at most MaxGrowth lines.
MaxGrowth == 3
\* A function of the saver called on its own is called at most MaxSaves times.
MaxSaves == 4
\* A batch given to the report writer on its own is made of at most MaxBatch events.
MaxBatch == 2
\* A chat line under probe holds at most MaxParts pipe-delimited parts.
MaxParts == 5
\* A call of aggregate under probe is given at most MaxEvents events.
MaxEvents == 3

\* --------------------------------------------------------------- universe
\* "cop" is <session>/GitHub Copilot.log, "chat" is
\* <session>/GitHub Copilot Chat 1970-01-01.log (a name with a date in it).
Files == {"cop", "chat"}
\* Report dates: metrics_<date>.json, in readdir (alphabetical) order.
DateOrder == <<"D1", "D2">>
Dates == {DateOrder[i] : i \in 1..Len(DateOrder)}
\* Lines: "e" is a line in the format of the file it is in (a completion line
\* dated D1 in "cop", a chat line dated D2 in "chat"), "w" is a line of other
\* text holding a non-ASCII character.
Lines == {"e", "w"}

VARIABLES
    now,                 \* Date.now()
    src,                 \* the source logs: [exists, content, mtime] per file
    activated,           \* activate() has run
    collectionState,     \* LogCollector.collectionState (in memory)
    collectionStateFile, \* <globalStorage>/collection-state.json
    parsingStateFile,    \* <globalStorage>/parsing_state.json
    logsDir,             \* the root report directory exists
    metricsDir,          \* <root>/metrics exists
    metrics,             \* <root>/metrics/metrics_<date>.json per date
    hcPc,                \* the health-check timer callback: "idle" | "checked"
    healthStatus,        \* what performHealthCheck returned to the callback
    pending,             \* open dialogs of runs in progress
    lastRun,             \* what the collectCopilotLogs invocation of the last step did
    heal,                \* the progress of a recovery after a deletion
    cleanRuns,           \* runs since the source logs last changed, up to 2
    mirrors,             \* the copies of the state documents in the root report
                         \* directory: "absent" | "current" | "stale" per document
    probe,               \* a call of a function of CopilotParser on its own:
                         \* the function, its argument and what it returned
    suspended            \* per invocation of collectCopilotLogs that is at
                         \* `await saveMetricsToJSON`: the parsingState it holds

\* the state of the extension and of the file system
program == <<now, src, activated, collectionState, collectionStateFile,
             parsingStateFile, logsDir, metricsDir, metrics, hcPc, healthStatus,
             pending, lastRun, heal, cleanRuns, mirrors, suspended>>

vars == <<now, src, activated, collectionState, collectionStateFile,
          parsingStateFile, logsDir, metricsDir, metrics, hcPc, healthStatus,
          pending, lastRun, heal, cleanRuns, mirrors, probe, suspended>>

\* ------------------------------------------------------------------ faults
\* The I/O errors one callback meets: fs.statSync and fs.readFileSync of a
\* source log throwing, fs.writeFileSync of a state document or of its copy
\* throwing, fs.mkdirSync of the root report directory and fs.readdirSync of
\* the metrics directory throwing.
StateKinds == {"collection", "parsing"}

NoFault == [statFails |-> {}, readFails |-> {}, saveFails |-> {},
            mirrorFails |-> FALSE, mkdirFails |-> FALSE, readdirFails |-> FALSE,
            unlinkFails |-> FALSE]

\* the errors a run of collectCopilotLogs can meet, one at a time
RunFaults ==
    {NoFault}
        \cup {[NoFault EXCEPT !.statFails = {f}] : f \in Files}
        \cup {[NoFault EXCEPT !.readFails = {f}] : f \in Files}
        \cup {[NoFault EXCEPT !.saveFails = {k}] : k \in StateKinds}
        \cup {[NoFault EXCEPT !.mirrorFails = TRUE]}

\* the errors a health check can meet, one at a time
CheckFaults ==
    {NoFault, [NoFault EXCEPT !.mkdirFails = TRUE],
     [NoFault EXCEPT !.readdirFails = TRUE]}
ResetFaults == {NoFault, [NoFault EXCEPT !.unlinkFails = TRUE]}

\* ------------------------------------------------------------ file sizes
\* Buffer.byteLength of one line, in UTF-8.
LineBytes(l) == IF l = "w" THEN 2 ELSE 1

RECURSIVE ByteLen(_)
\* fs.statSync(file).size
ByteLen(c) == IF c = <<>> THEN 0 ELSE LineBytes(Head(c)) + ByteLen(Tail(c))

\* fs.readFileSync(file, 'utf8').length
CharLen(c) == Len(c)

\* a read that hands over the whole content
WholeContent(c, lastSize) == c

\* content.substring(lastSize)
Substring(c, lastSize) ==
    IF lastSize >= Len(c) THEN <<>> ELSE SubSeq(c, lastSize + 1, Len(c))

\* path.basename(file).includes('Chat')
IsChat(f) == f = "chat"

\* parseLogTimestamp(filename): null (0) when the name holds no date
ParseLogTimestamp(f) == IF f = "chat" THEN 2 ELSE 0

\* ------------------------------------------------------- pattern extractor
NoRecord == [date |-> "none", source |-> "none", served_by |-> "none",
             action |-> "none", name |-> "none"]

\* CopilotParser.parseCopilotLine
ParseCopilotLine(f, l, name) ==
    IF l = "e" /\ ~IsChat(f)
    THEN [date |-> "D1", source |-> "copilot", served_by |-> "https://proxy",
          action |-> "completion", name |-> name]
    ELSE NoRecord

\* CopilotParser.parseChatLine
ParseChatLine(f, l, name) ==
    IF l = "e" /\ IsChat(f)
    THEN [date |-> "D2", source |-> "copilot-chat", served_by |-> "gpt-4.1",
          action |-> "[panel/unknown]", name |-> name]
    ELSE NoRecord

RECURSIVE ParseLines(_, _, _)
\* the loop of parseFileIncremental over the lines of the new content
ParseLines(f, ls, name) ==
    IF ls = <<>> THEN <<>>
    ELSE LET result == IF IsChat(f) THEN ParseChatLine(f, Head(ls), name)
                       ELSE ParseCopilotLine(f, Head(ls), name)
         IN  (IF result = NoRecord THEN <<>> ELSE <<result>>)
                 \o ParseLines(f, Tail(ls), name)

\* ------------------------------------------- pattern extractor, by tokens
\* A chat line as parseChatLine sees it: the date its text begins with
\* ("none" when it begins with no date) and line.split("|").map(trim), the
\* parts being separated by " | ".
ChatTag == "ccreq:ab70e0b0.copilotmd"
Tokens == {ChatTag, "success", "successful", "gpt-4.1", "7006ms", "[panel/unknown]"}
ChatLines ==
    {[date |-> d, parts |-> p] :
        d \in {"none", "D2"},
        p \in UNION {[1..n -> Tokens] : n \in 1..MaxParts}}

\* the example line of parseChatLine, dated 2025-09-03 (D2)
ExampleChatLine ==
    [date |-> "D2",
     parts |-> <<ChatTag, "success", "gpt-4.1", "7006ms", "[panel/unknown]">>]

\* line.includes("copilotmd | success")
IncludesMarker(parts) ==
    \E i \in 1..(Len(parts) - 1) :
        parts[i] = ChatTag /\ parts[i + 1] \in {"success", "successful"}

\* line.split("|").map(p => p.trim()): the first piece of a dated line begins
\* with the date, whatever text follows it
DatedPiece == "D2 [info] ..."
SplitParts(line) ==
    IF line.date = "none" THEN line.parts
    ELSE [line.parts EXCEPT ![1] = DatedPiece]

\* the index of the last part that is "success", 0 when there is none
LastIndexOfSuccess(parts) ==
    IF \E i \in 1..Len(parts) : parts[i] = "success"
    THEN CHOOSE i \in 1..Len(parts) :
             parts[i] = "success" /\ \A j \in (i + 1)..Len(parts) : parts[j] # "success"
    ELSE 0

\* parts.indexOf("success"), counted from 1: 0 when no part is "success"
IndexOfSuccess(parts) ==
    IF \E i \in 1..Len(parts) : parts[i] = "success"
    THEN CHOOSE i \in 1..Len(parts) :
             parts[i] = "success" /\ \A j \in 1..(i - 1) : parts[j] # "success"
    ELSE 0

\* /(\d+)/.exec(text): the first run of digits, "none" when there is no digit
FirstDigits(text) ==
    CASE text = "7006ms" -> "7006"
      [] text = "gpt-4.1" -> "4"
      [] text = ChatTag -> "70"
      [] OTHER -> "none"

\* parseFloat(text): the number its longest numeric prefix denotes, "NaN"
\* when no prefix is a number
ParseFloat(text) ==
    CASE text = "227.3" -> "227.3"
      [] text = "1.2.3" -> "1.2"
      [] text \in {"7006", "4", "70"} -> text
      [] OTHER -> "NaN"

NoEvent == [date |-> "none", source |-> "none", served_by |-> "none",
            action |-> "none", response_time |-> "none", name |-> "none"]

\* CopilotParser.parseChatLine, part by part
ParseChatTokens(line, name) ==
    LET parts == SplitParts(line)
        idx == IndexOfSuccess(parts)
    IN  IF ~IncludesMarker(line.parts) THEN NoEvent
        ELSE IF line.date = "none" THEN NoEvent
        ELSE IF idx = 0 THEN NoEvent
        ELSE IF idx + 3 > Len(parts) THEN NoEvent
        ELSE IF FirstDigits(parts[idx + 2]) = "none" THEN NoEvent
        ELSE [date |-> line.date, source |-> "copilot-chat",
              served_by |-> parts[idx + 1], action |-> parts[idx + 3],
              response_time |-> ParseFloat(FirstDigits(parts[idx + 2])),
              name |-> name]

\* A completion line as COPILOT_RE sees it: the date it begins with, the
\* address after " at ", the status after "finished with" and the text
\* between "after " and "ms".
DurationTexts == {"227.3", "...", "1.2.3", "fast"}
CopilotLines ==
    [date : {"none", "D1"}, url : {"none", "https://proxy"},
     status : {"200", "500"}, duration : DurationTexts]

\* the example line of parseCopilotLine
ExampleCopilotLine ==
    [date |-> "D1", url |-> "https://proxy", status |-> "200", duration |-> "227.3"]

\* the text is [0-9.]+
DigitsAndDots(text) == text \in {"227.3", "...", "1.2.3"}

\* the text is a number: digits with at most one dot among them
WellFormedNumber(text) == text = "227.3"

\* COPILOT_RE.exec(line) matches
CopilotMatch(line) ==
    /\ line.date # "none" /\ line.url # "none" /\ line.status = "200"
    /\ DigitsAndDots(line.duration)

\* CopilotParser.parseCopilotLine, group by group
ParseCopilotTokens(line, name) ==
    IF ~CopilotMatch(line) THEN NoEvent
    ELSE [date |-> line.date, source |-> "copilot", served_by |-> line.url,
          action |-> "completion", response_time |-> ParseFloat(line.duration),
          name |-> name]

\* ------------------------------------------------------------- aggregator
AggKey(r) == <<r.date, r.source, r.served_by, r.action>>
RowAggKey(row) == <<row.date, row.source, row.servedBy, row.action>>

RECURSIVE AggregateWithoutCount(_, _)
RECURSIVE AggregateFirstName(_, _)
RECURSIVE AggregateInto(_, _)
\* an aggregation that leaves numRequests at 1
AggregateWithoutCount(totals, recs) ==
    IF recs = <<>> THEN totals
    ELSE LET rec == Head(recs)
             hit == {i \in 1..Len(totals) : RowAggKey(totals[i]) = AggKey(rec)}
         IN  IF hit = {}
             THEN AggregateWithoutCount(
                      Append(totals,
                             [date |-> rec.date, source |-> rec.source,
                              servedBy |-> rec.served_by, action |-> rec.action,
                              numRequests |-> 1, name |-> rec.name,
                              ide |-> "Visual Studio Code"]),
                      Tail(recs))
             ELSE LET i == CHOOSE i \in hit : TRUE
                  IN  AggregateWithoutCount([totals EXCEPT ![i].name = rec.name],
                                            Tail(recs))

\* an aggregation that keeps the name of the first event of a group
AggregateFirstName(totals, recs) ==
    IF recs = <<>> THEN totals
    ELSE LET rec == Head(recs)
             hit == {i \in 1..Len(totals) : RowAggKey(totals[i]) = AggKey(rec)}
         IN  IF hit = {}
             THEN AggregateFirstName(
                      Append(totals,
                             [date |-> rec.date, source |-> rec.source,
                              servedBy |-> rec.served_by, action |-> rec.action,
                              numRequests |-> 1, name |-> rec.name,
                              ide |-> "Visual Studio Code"]),
                      Tail(recs))
             ELSE LET i == CHOOSE i \in hit : TRUE
                  IN  AggregateFirstName([totals EXCEPT ![i].numRequests = @ + 1],
                                         Tail(recs))

\* the loop of aggregate over the records, `totals` in insertion order
AggregateInto(totals, recs) ==
    IF recs = <<>> THEN totals
    ELSE LET rec == Head(recs)
             hit == {i \in 1..Len(totals) : RowAggKey(totals[i]) = AggKey(rec)}
         IN  IF hit = {}
             THEN AggregateInto(
                      Append(totals,
                             [date |-> rec.date, source |-> rec.source,
                              servedBy |-> rec.served_by, action |-> rec.action,
                              numRequests |-> 1, name |-> rec.name,
                              ide |-> "Visual Studio Code"]),
                      Tail(recs))
             ELSE LET i == CHOOSE i \in hit : TRUE
                  IN  AggregateInto(
                          [totals EXCEPT ![i].numRequests = @ + 1,
                                         ![i].name = rec.name],
                          Tail(recs))

\* CopilotParser.aggregate: the rows in the insertion order of their keys
Aggregate(recs) == AggregateInto(<<>>, recs)

\* ------------------------------------------------------------ report writer
ReducedKey(row) == <<row.source, row.servedBy, row.action>>

\* a merge that keeps every row, whether or not its key is there already
AppendInto(merged, rows) == merged \o rows

RECURSIVE SumInto(_, _)
RECURSIVE MergeInto(_, _)
\* a merge that adds the requests of a later row to those of an earlier one
SumInto(merged, rows) ==
    IF rows = <<>> THEN merged
    ELSE LET metric == Head(rows)
             hit == {i \in 1..Len(merged) : ReducedKey(merged[i]) = ReducedKey(metric)}
         IN  IF hit = {}
             THEN SumInto(Append(merged, metric), Tail(rows))
             ELSE LET i == CHOOSE i \in hit : TRUE
                  IN  SumInto([merged EXCEPT ![i].numRequests = @ + metric.numRequests],
                              Tail(rows))

\* mergedMetrics[key] = metric, for every metric in order
MergeInto(merged, rows) ==
    IF rows = <<>> THEN merged
    ELSE LET metric == Head(rows)
             hit == {i \in 1..Len(merged) : ReducedKey(merged[i]) = ReducedKey(metric)}
         IN  IF hit = {}
             THEN MergeInto(Append(merged, metric), Tail(rows))
             ELSE LET i == CHOOSE i \in hit : TRUE
                  IN  MergeInto([merged EXCEPT ![i] = metric], Tail(rows))

NoReport == [st |-> "absent", rows |-> <<>>]

\* the rows saveMetricsToJSON reads from an existing report: a file that does
\* not parse is read as no rows
ExistingMetrics(report) == IF report.st = "ok" THEN report.rows ELSE <<>>

\* a writer that writes the batch of a date over the report of the date
SaveBatchOverReport(aggregated, m) ==
    [d \in Dates |->
        LET batch == SelectSeq(aggregated, LAMBDA row : row.date = d)
        IN  IF batch = <<>> THEN m[d]
            ELSE [st |-> "ok", rows |-> MergeInto(<<>>, batch)]]

\* saveMetricsToJSON: the report files after the call
SaveMetricsToJSON(aggregated, m) ==
    [d \in Dates |->
        LET batch == SelectSeq(aggregated, LAMBDA row : row.date = d)
        IN  IF batch = <<>> THEN m[d]
            ELSE [st |-> "ok",
                  rows |-> MergeInto(<<>>, ExistingMetrics(m[d]) \o batch)]]

\* -------------------------------------------------------------- state store
DefaultCollectionState ==
    [lastCollection |-> 0, processedFiles |-> {}, fileSizes |-> [f \in Files |-> 0]]
DefaultParsingState ==
    [processedFiles |-> [f \in Files |-> 0], lastParse |-> 0]

\* ConfigManager.getConfig().userName: the name the user gave at the first
\* start (company and team are carried the same way)
UserName == "Dev"

\* <globalStorage>/user_config.json exists once the user has configured a name
ConfigFileExists == UserName # "Unknown"

\* a state document: `valid` is whether it parses as JSON, `data` what it
\* holds (what was last written, for a document that no longer parses)
StateDocument(data) == [exists |-> TRUE, valid |-> TRUE, data |-> data]
NoDocument(data) == [exists |-> FALSE, valid |-> FALSE, data |-> data]

\* a load that takes what the document held without parsing it
LoadCollectionUnchecked(file) ==
    IF file.exists THEN file.data ELSE DefaultCollectionState

\* StateManager.loadCollectionState
LoadCollectionState(file) ==
    IF file.exists /\ file.valid THEN file.data ELSE DefaultCollectionState

\* StateManager.loadParsingState
LoadParsingState(file) ==
    IF file.exists /\ file.valid THEN file.data ELSE DefaultParsingState

\* getPersistedLogsDirectory: creates the root report directory when it is
\* missing; the value is whether the directory exists when it returns
GetPersistedLogsDirectory(dirExists) == TRUE

\* StateManager.copyStateToLogsDirectory: the copy resolves the report
\* directory (and so creates it) only when user_config.json exists
CopyStateToLogsDirectory(dirExists) ==
    IF ConfigFileExists THEN GetPersistedLogsDirectory(dirExists) ELSE dirExists

\* fs.writeFileSync of a state document succeeds
Written(kind, io) == kind \notin io.saveFails

\* a save that writes the copy first and gives up when the copy fails
SaveCollectionStateAfterCopy(state, file, io) ==
    IF Written("collection", io) /\ ~io.mirrorFails
    THEN StateDocument([lastCollection |-> IF state.lastCollection # 0
                                          THEN state.lastCollection ELSE now,
                        processedFiles |-> state.processedFiles,
                        fileSizes |-> state.fileSizes])
    ELSE file

\* StateManager.saveCollectionState: collection-state.json afterwards; a
\* failed write is logged and leaves the document as it was
SaveCollectionState(state, file, io) ==
    IF Written("collection", io)
    THEN StateDocument([lastCollection |-> IF state.lastCollection # 0
                                          THEN state.lastCollection ELSE now,
                        processedFiles |-> state.processedFiles,
                        fileSizes |-> state.fileSizes])
    ELSE file

\* a save that stamps lastParse whenever the parsing state is written
SaveParsingStateStamped(state, file, io) ==
    IF Written("parsing", io)
    THEN StateDocument([state EXCEPT !.lastParse = now])
    ELSE file

\* StateManager.saveParsingState: parsing_state.json afterwards
SaveParsingState(state, file, io) ==
    IF Written("parsing", io) THEN StateDocument(state) ELSE file

\* the copy of a state document in the root report directory after a save:
\* copyStateToLogsDirectory runs once the document is written, does nothing
\* without user_config.json, and fails silently
MirrorAfterSave(kind, mirror, io) ==
    IF ~Written(kind, io) THEN mirror
    ELSE IF ConfigFileExists /\ ~io.mirrorFails THEN "current"
    ELSE IF mirror = "absent" THEN "absent" ELSE "stale"

\* the root report directory after a save of the document `kind`
DirectoryAfterSave(kind, dirExists, io) ==
    IF Written(kind, io) THEN CopyStateToLogsDirectory(dirExists) ELSE dirExists

\* --------------------------------------------------------------- collector
\* LogCollector.initializeState: loads the state once, then keeps it in memory
InitializeState ==
    IF collectionState.loaded THEN collectionState.st
    ELSE LoadCollectionState(collectionStateFile)

\* getVSCodeLogDirectories + findCopilotLogFiles: the logs that exist
FindCopilotLogFiles == {f \in Files : src[f].exists}

\* a filter that looks at the size only
SizeIncreasedOnly(f, cs) == ByteLen(src[f].content) > cs.fileSizes[f]

\* one file of LogCollector.filterNewFiles
IsNewFile(f, cs) ==
    LET currentSize == ByteLen(src[f].content)
        lastKnownSize == cs.fileSizes[f]
        sizeIncreased == currentSize > lastKnownSize
        fileModified == src[f].mtime > cs.lastCollection
        parsedTimestamp == ParseLogTimestamp(f)
        filenameNewer == parsedTimestamp # 0 /\ parsedTimestamp > cs.lastCollection
    IN  sizeIncreased \/ fileModified \/ filenameNewer

\* the conditions of filterNewFiles that hold for a file
SelectionReasons(f, cs) ==
    (IF ByteLen(src[f].content) > cs.fileSizes[f] THEN {"size"} ELSE {})
        \cup (IF src[f].mtime > cs.lastCollection THEN {"mtime"} ELSE {})
        \cup (IF ParseLogTimestamp(f) # 0 /\ ParseLogTimestamp(f) > cs.lastCollection
              THEN {"name"} ELSE {})

\* the order in which readdir hands out the source logs
FindOrder == <<"chat", "cop">>

\* fs.statSync throws for one of `files`
StatThrows(files, io) == files \cap io.statFails # {}

\* fs.readFileSync throws for one of `files`
ReadThrows(files, io) == files \cap io.readFails # {}

\* LogCollector.filterNewFiles
FilterNewFiles(logFiles, cs) == {f \in logFiles : IsNewFile(f, cs)}

\* the size updateCollectionState records for a file
RecordedSize(f) == ByteLen(src[f].content)

\* LogCollector.updateCollectionState: the state in memory afterwards
UpdateCollectionState(cs, newLogFiles) ==
    [lastCollection |-> now,
     processedFiles |-> cs.processedFiles \cup newLogFiles,
     fileSizes |-> [f \in Files |-> IF f \in newLogFiles THEN RecordedSize(f)
                                    ELSE cs.fileSizes[f]]]

\* LogCollector.updateCollectionState when fs.statSync throws: the state in
\* memory holds the new lastCollection, the files before the failing one
\* with their sizes, and the failing one without its size; nothing is saved
UpdateInterrupted(cs, newLogFiles, io) ==
    LET failing == CHOOSE k \in 1..Len(FindOrder) :
                       /\ FindOrder[k] \in newLogFiles \cap io.statFails
                       /\ \A j \in 1..(k - 1) :
                              FindOrder[j] \notin newLogFiles \cap io.statFails
        done == {FindOrder[j] : j \in 1..(failing - 1)} \cap newLogFiles
    IN  [lastCollection |-> now,
         processedFiles |-> cs.processedFiles \cup done \cup {FindOrder[failing]},
         fileSizes |-> [f \in Files |-> IF f \in done THEN RecordedSize(f)
                                        ELSE cs.fileSizes[f]]]

\* one file of LogCollector.filterNewParsedFiles
NeedsParsing(f, ps) == ByteLen(src[f].content) > ps.processedFiles[f]

\* LogCollector.filterNewParsedFiles
FilterNewParsedFiles(files, ps) == {f \in files : NeedsParsing(f, ps)}

\* a reader that starts every file over
ReadFromStart(f, ps) == 0

\* the offset parseFileIncremental reads a file from
ReadOffset(f, ps) == ps.processedFiles[f]

\* a position that counts only what this pass has read
AdvancedSize(f, lastSize) == CharLen(src[f].content) - lastSize

\* the position parseFileIncremental records for a file it has read
ProcessedSize(f, lastSize) == CharLen(src[f].content)

\* LogCollector.parseFileIncremental: the records of the unread suffix
ParseFileIncremental(f, ps) ==
    ParseLines(f, Substring(src[f].content, ReadOffset(f, ps)), UserName)

\* the records of the copilot files, then those of the chat files
RecordsOf(files, ps) ==
    (IF "cop" \in files THEN ParseFileIncremental("cop", ps) ELSE <<>>)
        \o (IF "chat" \in files THEN ParseFileIncremental("chat", ps) ELSE <<>>)

\* LogCollector.parseAndSaveMetricsDirectly, from the state in `s`
\* (the fields of a run in progress); an error while reading a file is caught
\* at the end of the method, which then returns without saving anything
ParseAndSaveMetricsDirectly(logFiles, s, io) ==
    LET parsingState == LoadParsingState(s.psf)
        newFiles == FilterNewParsedFiles(logFiles, parsingState)
        allRecords == RecordsOf(newFiles, parsingState)
        parsed == [parsingState EXCEPT !.processedFiles =
                      [f \in Files |-> IF f \in newFiles
                                       THEN ProcessedSize(f, parsingState.processedFiles[f])
                                       ELSE @[f]]]
        readFrom == [f \in Files |-> IF f \in newFiles
                                     THEN ReadOffset(f, parsingState) ELSE -1]
    IN  IF newFiles = {} THEN s
        ELSE IF ReadThrows(newFiles, io)
        THEN [s EXCEPT !.parseError = TRUE]
        ELSE IF allRecords = <<>>
        THEN [s EXCEPT !.psf = SaveParsingState(parsed, @, io),
                       !.logsDir = DirectoryAfterSave("parsing", @, io),
                       !.mirrors["parsing"] = MirrorAfterSave("parsing", @, io),
                       !.readFrom = readFrom]
        ELSE [s EXCEPT !.metrics = SaveMetricsToJSON(Aggregate(allRecords), @),
                       !.metricsDir = TRUE,
                       !.psf = SaveParsingState([parsed EXCEPT !.lastParse = now], @, io),
                       !.logsDir = GetPersistedLogsDirectory(@),
                       !.mirrors["parsing"] = MirrorAfterSave("parsing", @, io),
                       !.events = Len(allRecords),
                       !.readFrom = readFrom]

\* a run that goes on to updateCollectionState when an automatic run has
\* selected no file
CollectWithoutEarlyReturn(isAutoCollection, forceAll, io) ==
    LET cs == InitializeState
        logFiles == FindCopilotLogFiles
        newLogFiles == IF forceAll THEN logFiles ELSE FilterNewFiles(logFiles, cs)
        s0 == [cs |-> cs, csf |-> collectionStateFile, psf |-> parsingStateFile,
               logsDir |-> logsDir, metricsDir |-> metricsDir, metrics |-> metrics,
               mirrors |-> mirrors,
               dialog |-> "none", selected |-> {}, events |-> 0,
               readFrom |-> [f \in Files |-> -1],
               threw |-> FALSE, errorShown |-> FALSE, parseError |-> FALSE]
        thrown == [s0 EXCEPT !.threw = TRUE, !.errorShown = ~isAutoCollection]
    IN  IF ~forceAll /\ StatThrows(logFiles, io) THEN thrown
        ELSE IF logFiles = {} THEN s0
        ELSE IF newLogFiles = {} /\ ~isAutoCollection
        THEN \* handleNoNewFiles: resolves the report directory, opens its dialog
             [s0 EXCEPT !.logsDir = GetPersistedLogsDirectory(@), !.dialog = "noNew"]
        ELSE IF StatThrows(newLogFiles, io)
        THEN [thrown EXCEPT !.cs = UpdateInterrupted(cs, newLogFiles, io)]
        ELSE LET cs1 == UpdateCollectionState(cs, newLogFiles)
                 s1 == [s0 EXCEPT !.cs = cs1,
                                  !.csf = SaveCollectionState(cs1, @, io),
                                  !.logsDir = DirectoryAfterSave("collection", @, io),
                                  !.mirrors["collection"] =
                                      MirrorAfterSave("collection", @, io),
                                  !.selected = newLogFiles]
                 s2 == ParseAndSaveMetricsDirectly(newLogFiles, s1, io)
                 s3 == [s2 EXCEPT !.errorShown = s2.parseError /\ ~isAutoCollection]
             IN  IF isAutoCollection THEN s3
                 ELSE \* showCompletionMessage
                      [s3 EXCEPT !.logsDir = GetPersistedLogsDirectory(@),
                                 !.dialog = "done"]

\* LogCollector.collectCopilotLogs(isAutoCollection, forceAll): the state
\* when the run reaches its dialog or its end, or throws (an error of
\* fs.statSync is not caught before the catch of collectCopilotLogs, which
\* shows it to the user of a run that is not automatic and throws it again)
CollectCopilotLogs(isAutoCollection, forceAll, io) ==
    LET cs == InitializeState
        logFiles == FindCopilotLogFiles
        newLogFiles == IF forceAll THEN logFiles ELSE FilterNewFiles(logFiles, cs)
        s0 == [cs |-> cs, csf |-> collectionStateFile, psf |-> parsingStateFile,
               logsDir |-> logsDir, metricsDir |-> metricsDir, metrics |-> metrics,
               mirrors |-> mirrors,
               dialog |-> "none", selected |-> {}, events |-> 0,
               readFrom |-> [f \in Files |-> -1],
               threw |-> FALSE, errorShown |-> FALSE, parseError |-> FALSE]
        thrown == [s0 EXCEPT !.threw = TRUE, !.errorShown = ~isAutoCollection]
    IN  IF ~forceAll /\ StatThrows(logFiles, io) THEN thrown
        ELSE IF newLogFiles = {} /\ isAutoCollection THEN s0
        ELSE IF logFiles = {} THEN s0
        ELSE IF newLogFiles = {}
        THEN \* handleNoNewFiles: resolves the report directory, opens its dialog
             [s0 EXCEPT !.logsDir = GetPersistedLogsDirectory(@), !.dialog = "noNew"]
        ELSE IF StatThrows(newLogFiles, io)
        THEN [thrown EXCEPT !.cs = UpdateInterrupted(cs, newLogFiles, io)]
        ELSE LET cs1 == UpdateCollectionState(cs, newLogFiles)
                 s1 == [s0 EXCEPT !.cs = cs1,
                                  !.csf = SaveCollectionState(cs1, @, io),
                                  !.logsDir = DirectoryAfterSave("collection", @, io),
                                  !.mirrors["collection"] =
                                      MirrorAfterSave("collection", @, io),
                                  !.selected = newLogFiles]
                 s2 == ParseAndSaveMetricsDirectly(newLogFiles, s1, io)
                 s3 == [s2 EXCEPT !.errorShown = s2.parseError /\ ~isAutoCollection]
             IN  IF isAutoCollection THEN s3
                 ELSE \* showCompletionMessage
                      [s3 EXCEPT !.logsDir = GetPersistedLogsDirectory(@),
                                 !.dialog = "done"]

\* ----------------------------------------------------------- health checker
Issue(msg, file) == [msg |-> msg, file |-> file]

\* a test that takes a state without a parse for one with a parse
HadAnyParsingState(ps) == ps.lastParse >= 0

\* parsingState.lastParse && parsingState.lastParse > 0
HadPreviousParse(ps) == ps.lastParse # 0 /\ ps.lastParse > 0

\* fs.unlinkSync of a metrics file succeeds
CanUnlink(report) == report.st # "locked"

\* a validation that only looks whether the file is there
IsPresent(report) == report.st # "absent"

\* JSON.parse of a metrics file succeeds
ParsesAsJSON(report) == report.st = "ok"

\* a repair that writes an empty report in place of the corrupted one
RewrittenEmpty(report) == [st |-> "ok", rows |-> <<>>]

\* the file after fs.unlinkSync has removed it
Unlinked(report) == NoReport

\* a count that forgets the file that was removed
CountKept(count) == count

\* metricsFileCount-- after the unlink
AfterUnlink(count) == count - 1

RECURSIVE ValidateMetricsFiles(_, _)
\* the loop of checkMetricsDirectory over the metrics files, from the i-th
\* date on; c holds issues, warnings, needsRecollection, metricsFileCount and
\* the files as they are so far
ValidateMetricsFiles(i, c) ==
    IF i > Len(DateOrder) THEN c
    ELSE LET d == DateOrder[i]
         IN  IF c.metrics[d].st = "absent" \/ ParsesAsJSON(c.metrics[d])
             THEN ValidateMetricsFiles(i + 1, c)
             ELSE IF CanUnlink(c.metrics[d])
             THEN ValidateMetricsFiles(i + 1,
                    [c EXCEPT !.issues = Append(@, Issue("Corrupted metrics file", d)),
                              !.warnings = Append(@, Issue("Deleted corrupted file", d)),
                              !.metrics[d] = Unlinked(@),
                              !.metricsFileCount = AfterUnlink(@),
                              !.needsRecollection = TRUE])
             ELSE ValidateMetricsFiles(i + 1,
                    [c EXCEPT !.issues = Append(@, Issue("Corrupted metrics file", d)),
                              !.warnings = Append(@, Issue("Could not delete corrupted file", d)),
                              !.needsRecollection = TRUE])

\* HealthChecker.checkMetricsDirectory
CheckMetricsDirectory(dirExists, m, ps, io) ==
    LET c0 == [issues |-> <<>>, warnings |-> <<>>, needsRecollection |-> FALSE,
               metricsFileCount |-> 0, hasMetrics |-> FALSE, metrics |-> m]
    IN  IF ~dirExists
        THEN IF HadPreviousParse(ps)
             THEN [c0 EXCEPT !.issues = <<Issue("Metrics directory was deleted", "")>>,
                             !.warnings = <<Issue("Will regenerate metrics from source logs", "")>>,
                             !.needsRecollection = TRUE]
             ELSE c0
        ELSE IF io.readdirFails
        THEN [c0 EXCEPT !.issues = <<Issue("Error reading metrics directory", "")>>,
                        !.needsRecollection = TRUE]
        ELSE LET metricFiles == {d \in Dates : m[d].st # "absent"}
                 c1 == ValidateMetricsFiles(1,
                          [c0 EXCEPT !.metricsFileCount = Cardinality(metricFiles),
                                     !.hasMetrics = Cardinality(metricFiles) > 0])
             IN  IF c1.metricsFileCount = 0 /\ HadPreviousParse(ps)
                 THEN [c1 EXCEPT !.issues = Append(@, Issue("All metrics files were deleted", "")),
                                 !.warnings = Append(@, Issue("Will regenerate metrics from source logs", "")),
                                 !.needsRecollection = TRUE]
                 ELSE c1

\* the check of the root report directory in performHealthCheck, made on the
\* directory as getPersistedLogsDirectory has left it
RootDirectoryMissing(dirExists) == ~GetPersistedLogsDirectory(dirExists)

\* the status performHealthCheck returns from its catch
ErrorStatus == [healthy |-> FALSE, metricsFileCount |-> 0, hasMetrics |-> FALSE,
                needsRecollection |-> FALSE, issues |-> <<>>, warnings |-> <<>>,
                error |-> TRUE]

\* getPersistedLogsDirectory throws: the root report directory is missing
\* and fs.mkdirSync fails
ResolveThrows(dirExists, io) == ~dirExists /\ io.mkdirFails

\* HealthChecker.performHealthCheck: the status returned and the files afterwards
PerformHealthCheck(io) ==
    LET rootMissing == RootDirectoryMissing(logsDir)
        metricsCheck == CheckMetricsDirectory(metricsDir, metrics,
                                              LoadParsingState(parsingStateFile), io)
        issues == (IF rootMissing THEN <<Issue("Logs directory was deleted", "")>>
                   ELSE <<>>) \o metricsCheck.issues
        warnings == (IF rootMissing THEN <<Issue("Created missing logs directory", "")>>
                     ELSE <<>>) \o metricsCheck.warnings
    IN  IF ResolveThrows(logsDir, io)
        THEN [status |-> ErrorStatus, logsDir |-> logsDir, metrics |-> metrics]
        ELSE [status |-> [healthy |-> Len(issues) = 0,
                          metricsFileCount |-> metricsCheck.metricsFileCount,
                          hasMetrics |-> metricsCheck.hasMetrics,
                          needsRecollection |-> rootMissing \/ metricsCheck.needsRecollection,
                          issues |-> issues,
                          warnings |-> warnings,
                          error |-> FALSE],
              logsDir |-> GetPersistedLogsDirectory(logsDir),
              metrics |-> metricsCheck.metrics]

NoStatus == [healthy |-> TRUE, metricsFileCount |-> 0, hasMetrics |-> FALSE,
             needsRecollection |-> FALSE, issues |-> <<>>, warnings |-> <<>>,
             error |-> FALSE]

\* a callback that recovers whenever the check found no metrics file
NoMetricsFound(status) == ~status.hasMetrics

\* the condition of the health-check timer's callback for a recovery run
RecoveryRequested(status) == status.needsRecollection

\* ------------------------------------------------------ parser under probe
\* the groups the events given to aggregate fall in
ProbeKeys ==
    {<<"D1", "copilot", "https://proxy", "completion">>,
     <<"D2", "copilot-chat", "gpt-4.1", "[panel/unknown]">>,
     <<"D1", "copilot-chat", "gpt-4.1", "[panel/unknown]">>}

\* the events given to aggregate: the name is the userName of the call of
\* the extractor that made the event (company and team are carried the same way)
ProbeEvents ==
    {[date |-> k[1], source |-> k[2], served_by |-> k[3], action |-> k[4],
      name |-> n] : k \in ProbeKeys, n \in {"Dev", "Ann"}}

NoProbe == [fn |-> "none", chat |-> [date |-> "none", parts |-> <<>>],
            copilot |-> [date |-> "none", url |-> "none", status |-> "500",
                         duration |-> "fast"],
            events |-> <<>>, applied |-> FALSE, event |-> NoEvent, rows |-> <<>>,
            daily |-> <<>>, hashes |-> <<>>, saved |-> "none", newLines |-> 0,
            calls |-> 0, threw |-> FALSE]

\* the calls under probe: every chat line, every completion line, every
\* sequence of at most MaxEvents events
ProbeInputs ==
    {[NoProbe EXCEPT !.fn = "parseChatLine", !.chat = l] : l \in ChatLines}
        \cup {[NoProbe EXCEPT !.fn = "parseCopilotLine", !.copilot = l] : l \in CopilotLines}
        \cup {[NoProbe EXCEPT !.fn = "aggregate", !.events = e] :
                 e \in UNION {[1..n -> ProbeEvents] : n \in 0..MaxEvents}}

\* ------------------------------------------------------- persistent storage
\* The contents saved for one date and one file name: "a" and "a'" are
\* different texts of one line with the same MD5 digest, "b" is a text of two
\* lines.
Contents == {"a", "a'", "b"}

\* crypto.createHash('md5').update(content).digest('hex')
MD5(content) == IF content \in {"a", "a'"} THEN "md5-a" ELSE "md5-b"

\* logFile.content.split('\n').length
SplitLength(content) == IF content = "b" THEN 2 ELSE 1

\* the errors of the file operations on the .hashes file, one at a time:
\* reading it fails (ignored: no digest is known), appending to it fails
StorageFaults == {"none", "hashesUnreadable", "hashesAppendFails"}

\* saveToPersistentStorage for one date and one log: the daily file (the
\* contents appended to it), the .hashes file, stats[dateKey][name] and
\* whether the call threw
SaveToPersistentStorage(daily, hashes, content, fault) ==
    LET existingHashes == IF fault = "hashesUnreadable" THEN {}
                          ELSE {hashes[i] : i \in 1..Len(hashes)}
    IN  IF MD5(content) \in existingHashes
        THEN [daily |-> daily, hashes |-> hashes, newLines |-> 0, threw |-> FALSE]
        ELSE IF fault = "hashesAppendFails"
        THEN [daily |-> Append(daily, content), hashes |-> hashes,
              newLines |-> SplitLength(content), threw |-> TRUE]
        ELSE [daily |-> Append(daily, content),
              hashes |-> Append(hashes, MD5(content)),
              newLines |-> SplitLength(content), threw |-> FALSE]

\* ------------------------------------------------------------ initial state
NoHeal == [phase |-> "none", snapshot |-> [d \in Dates |-> NoReport]]

\* the run of an origin is automatic: activate and the auto-collection timer
\* pass isAutoCollection = true, the others false
IsAutoOrigin(origin) == origin \in {"startup", "auto"}

\* a boundary that lets the rejection of the startup run go
CaughtUnlessStartup(origin) == origin # "startup"

\* the caller of a run catches what the run throws: the .catch of activate,
\* the try/catch of the two timer callbacks and of the command handler (which
\* is also where a run made from the dialog of handleNoNewFiles ends)
CaughtAtBoundary(origin) == TRUE

\* the state documents that exist and do not parse as JSON
DamagedDocuments ==
    {k \in StateKinds :
        LET file == IF k = "collection" THEN collectionStateFile ELSE parsingStateFile
        IN  file.exists /\ ~file.valid}

NoRun == [ran |-> FALSE, origin |-> "none", forceAll |-> FALSE, selected |-> {},
          events |-> 0, readFrom |-> [f \in Files |-> -1], io |-> NoFault,
          threw |-> FALSE, caught |-> FALSE, errorShown |-> FALSE,
          parseError |-> FALSE, dialog |-> "none", hadReport |-> {},
          damaged |-> {}, reasons |-> [f \in Files |-> {}]]

\* the invocations of collectCopilotLogs that may be in progress together
Invocations == {1, 2}

\* an invocation that is not at `await saveMetricsToJSON`
NotSuspended == [active |-> FALSE, parsingState |-> DefaultParsingState]

Constructed ==
    /\ now = 1
    /\ src = [f \in Files |-> [exists |-> FALSE, content |-> <<>>, mtime |-> 0]]
    /\ activated = FALSE
    /\ collectionState = [loaded |-> FALSE, st |-> DefaultCollectionState]
    /\ collectionStateFile = NoDocument(DefaultCollectionState)
    /\ parsingStateFile = NoDocument(DefaultParsingState)
    /\ logsDir = FALSE
    /\ metricsDir = FALSE
    /\ metrics = [d \in Dates |-> NoReport]
    /\ hcPc = "idle"
    /\ healthStatus = NoStatus
    /\ pending = [noNew |-> 0, done |-> 0]
    /\ lastRun = NoRun
    /\ heal = NoHeal
    /\ cleanRuns = 0
    /\ mirrors = [k \in StateKinds |-> "absent"]
    /\ suspended = [r \in Invocations |-> NotSuspended]

\* the state after construction: no function of the parser is under probe
Init == Constructed /\ probe = NoProbe

\* ------------------------------------------------------------------- runs
\* One invocation of collectCopilotLogs from `origin`, with the dialogs that
\* are open when it starts; with `resolveDir` the caller resolves the root
\* report directory once the body of the run has returned.
Run(origin, forceAll, open, resolveDir, io) ==
    \E r \in {CollectCopilotLogs(IsAutoOrigin(origin), forceAll, io)} :
        /\ r.dialog # "none" => open[r.dialog] < MaxPending
        /\ collectionState' = [loaded |-> TRUE, st |-> r.cs]
        /\ collectionStateFile' = r.csf
        /\ parsingStateFile' = r.psf
        /\ logsDir' = IF resolveDir THEN GetPersistedLogsDirectory(r.logsDir)
                      ELSE r.logsDir
        /\ metricsDir' = r.metricsDir
        /\ metrics' = r.metrics
        /\ mirrors' = r.mirrors
        /\ pending' = IF r.dialog = "none" THEN open
                      ELSE [open EXCEPT ![r.dialog] = @ + 1]
        /\ probe' = probe
        /\ suspended' = suspended
        /\ lastRun' = [ran |-> TRUE, origin |-> origin, forceAll |-> forceAll,
                       selected |-> r.selected, events |-> r.events,
                       readFrom |-> r.readFrom, io |-> io,
                       threw |-> r.threw,
                       caught |-> r.threw /\ CaughtAtBoundary(origin),
                       errorShown |-> r.errorShown \/ (r.threw /\ origin \in {"command", "dialog"}),
                       parseError |-> r.parseError, dialog |-> r.dialog,
                       hadReport |-> {d \in Dates : metrics[d].st = "ok"},
                       damaged |-> DamagedDocuments,
                       reasons |-> [f \in Files |->
                                       IF src[f].exists
                                       THEN SelectionReasons(f, InitializeState)
                                       ELSE {}]]
        /\ cleanRuns' = IF r.threw \/ r.parseError THEN cleanRuns
                        ELSE IF cleanRuns < 2 THEN cleanRuns + 1 ELSE 2

\* activate(): the run at startup, then the timers; its last line resolves
\* the root report directory
Activate(io) ==
    /\ ~activated
    /\ activated' = TRUE
    /\ Run("startup", FALSE, pending, TRUE, io)
    /\ UNCHANGED <<now, src, hcPc, healthStatus, heal>>

\* the auto-collection timer fires
AutoCollectionTimer(io) ==
    /\ activated /\ hcPc = "idle"
    /\ Run("auto", FALSE, pending, FALSE, io)
    /\ UNCHANGED <<now, src, activated, hcPc, healthStatus, heal>>

\* the CollectLogs command
CollectCommand(io) ==
    /\ activated /\ hcPc = "idle"
    /\ Run("command", FALSE, pending, FALSE, io)
    /\ UNCHANGED <<now, src, activated, hcPc, healthStatus, heal>>

\* the user answers the dialog of handleNoNewFiles with 'Force Re-collect All'
ForceRecollectAnswer(io) ==
    /\ hcPc = "idle" /\ pending.noNew > 0
    /\ Run("dialog", TRUE, [pending EXCEPT !.noNew = @ - 1], FALSE, io)
    /\ UNCHANGED <<now, src, activated, hcPc, healthStatus, heal>>

\* the user answers the dialog of handleNoNewFiles otherwise, or closes it
NoNewFilesAnswer ==
    /\ hcPc = "idle" /\ pending.noNew > 0
    /\ pending' = [pending EXCEPT !.noNew = @ - 1]
    /\ UNCHANGED <<now, src, activated, collectionState,
                   collectionStateFile, parsingStateFile, logsDir, metricsDir,
                   metrics, hcPc, healthStatus, heal>>
    /\ probe' = probe
    /\ suspended' = suspended
    /\ lastRun' = NoRun
    /\ mirrors' = mirrors
    /\ cleanRuns' = cleanRuns

\* the user answers or closes the dialog of showCompletionMessage
CompletionAnswer ==
    /\ hcPc = "idle" /\ pending.done > 0
    /\ pending' = [pending EXCEPT !.done = @ - 1]
    /\ UNCHANGED <<now, src, activated, collectionState,
                   collectionStateFile, parsingStateFile, logsDir, metricsDir,
                   metrics, hcPc, healthStatus, heal>>
    /\ probe' = probe
    /\ suspended' = suspended
    /\ lastRun' = NoRun
    /\ mirrors' = mirrors
    /\ cleanRuns' = cleanRuns

\* ----------------------------------------------------- health-check timer
\* the health-check timer fires: performHealthCheck returns its status (the
\* timer is held back while no further completion dialog can be opened)
HealthCheckTimer(io) ==
    /\ activated /\ hcPc = "idle"
    /\ pending.done < MaxPending
    /\ \E h \in {PerformHealthCheck(io)} :
           /\ healthStatus' = h.status
           /\ logsDir' = h.logsDir
           /\ metrics' = h.metrics
           /\ heal' = IF heal.phase = "lost" /\ h.status.needsRecollection
                      THEN [heal EXCEPT !.phase = "flagged"] ELSE heal
    /\ hcPc' = "checked"
    /\ UNCHANGED <<now, src, activated, collectionState,
                   collectionStateFile, parsingStateFile, metricsDir, pending>>
    /\ probe' = probe
    /\ suspended' = suspended
    /\ lastRun' = NoRun
    /\ mirrors' = mirrors
    /\ cleanRuns' = cleanRuns

\* the callback goes on with a forced run
HealthRecovery(io) ==
    /\ hcPc = "checked" /\ RecoveryRequested(healthStatus)
    /\ Run("health", TRUE, pending, FALSE, io)
    /\ hcPc' = "idle"
    /\ healthStatus' = NoStatus
    /\ heal' = IF heal.phase = "flagged"
               THEN [heal EXCEPT !.phase = "recollected"] ELSE heal
    /\ UNCHANGED <<now, src, activated>>

\* the callback ends without a run
HealthNoRecovery ==
    /\ hcPc = "checked" /\ ~RecoveryRequested(healthStatus)
    /\ hcPc' = "idle"
    /\ healthStatus' = NoStatus
    /\ UNCHANGED <<now, src, activated, collectionState,
                   collectionStateFile, parsingStateFile, logsDir, metricsDir,
                   metrics, pending, heal>>
    /\ probe' = probe
    /\ suspended' = suspended
    /\ lastRun' = NoRun
    /\ mirrors' = mirrors
    /\ cleanRuns' = cleanRuns

\* ------------------------------------------------------------ environment
\* the editor appends a line to a source log of fewer than `max` lines
\* (creating the log)
AppendUpTo(f, l, max) ==
    /\ hcPc = "idle" /\ now < MaxTime
    /\ Len(src[f].content) < max
    /\ now' = now + 1
    /\ src' = [src EXCEPT ![f] = [exists |-> TRUE, content |-> Append(@.content, l),
                                  mtime |-> now + 1]]
    /\ heal' = NoHeal
    /\ cleanRuns' = 0
    /\ UNCHANGED <<activated, collectionState, collectionStateFile,
                   parsingStateFile, logsDir, metricsDir, metrics, hcPc,
                   healthStatus, pending>>
    /\ probe' = probe
    /\ suspended' = suspended
    /\ lastRun' = NoRun
    /\ mirrors' = mirrors

\* the editor appends a line to a source log (creating the log)
AppendLine(f, l) == AppendUpTo(f, l, MaxLen)

\* a source log is truncated or replaced by a new log of at most one line
RotateLog(f, c) ==
    /\ hcPc = "idle" /\ now < MaxTime
    /\ src[f].exists /\ src[f].content # <<>>
    /\ now' = now + 1
    /\ src' = [src EXCEPT ![f] = [exists |-> TRUE, content |-> c, mtime |-> now + 1]]
    /\ heal' = NoHeal
    /\ cleanRuns' = 0
    /\ UNCHANGED <<activated, collectionState, collectionStateFile,
                   parsingStateFile, logsDir, metricsDir, metrics, hcPc,
                   healthStatus, pending>>
    /\ probe' = probe
    /\ suspended' = suspended
    /\ lastRun' = NoRun
    /\ mirrors' = mirrors

\* what a deletion of every report starts: a recovery to follow, when a parse
\* is on record and reports are lost
AfterDeletion ==
    IF LoadParsingState(parsingStateFile).lastParse > 0
       /\ \E d \in Dates : metrics[d].st = "ok"
    THEN [phase |-> "lost", snapshot |-> metrics]
    ELSE NoHeal

\* the user deletes <root>/metrics
DeleteMetricsDirectory ==
    /\ hcPc = "idle" /\ metricsDir
    /\ metricsDir' = FALSE
    /\ metrics' = [d \in Dates |-> NoReport]
    /\ heal' = AfterDeletion
    /\ UNCHANGED <<now, src, activated, collectionState,
                   collectionStateFile, parsingStateFile, logsDir, hcPc,
                   healthStatus, pending>>
    /\ probe' = probe
    /\ suspended' = suspended
    /\ lastRun' = NoRun
    /\ mirrors' = mirrors
    /\ cleanRuns' = cleanRuns

\* a state document kept inside the root report directory goes with it
DeletedWithReports(file) == NoDocument(file.data)

\* StateManager.getStateStoragePath: the state documents live in the global
\* storage of the extension, outside the root report directory, so deleting
\* that directory leaves them as they are
StateFileAfterDeletion(file) == file

\* the user deletes the root report directory
DeleteLogsDirectory ==
    /\ hcPc = "idle" /\ logsDir
    /\ logsDir' = FALSE
    /\ metricsDir' = FALSE
    /\ metrics' = [d \in Dates |-> NoReport]
    /\ mirrors' = [k \in StateKinds |-> "absent"]
    /\ collectionStateFile' = StateFileAfterDeletion(collectionStateFile)
    /\ parsingStateFile' = StateFileAfterDeletion(parsingStateFile)
    /\ heal' = AfterDeletion
    /\ UNCHANGED <<now, src, activated, collectionState, hcPc, healthStatus,
                   pending>>
    /\ probe' = probe
    /\ suspended' = suspended
    /\ lastRun' = NoRun
    /\ cleanRuns' = cleanRuns

\* the user deletes one report
DeleteReport(d) ==
    /\ hcPc = "idle" /\ metrics[d].st # "absent"
    /\ metrics' = [metrics EXCEPT ![d] = NoReport]
    /\ heal' = NoHeal
    /\ UNCHANGED <<now, src, activated, collectionState,
                   collectionStateFile, parsingStateFile, logsDir, metricsDir,
                   hcPc, healthStatus, pending>>
    /\ probe' = probe
    /\ suspended' = suspended
    /\ lastRun' = NoRun
    /\ mirrors' = mirrors
    /\ cleanRuns' = cleanRuns

\* a report is damaged: it no longer parses as JSON, and when `st` is
\* "locked" it cannot be unlinked either
CorruptReport(d, st) ==
    /\ hcPc = "idle" /\ metrics[d].st = "ok"
    /\ metrics' = [metrics EXCEPT ![d] = [st |-> st, rows |-> <<>>]]
    /\ heal' = NoHeal
    /\ UNCHANGED <<now, src, activated, collectionState,
                   collectionStateFile, parsingStateFile, logsDir, metricsDir,
                   hcPc, healthStatus, pending>>
    /\ probe' = probe
    /\ suspended' = suspended
    /\ lastRun' = NoRun
    /\ mirrors' = mirrors
    /\ cleanRuns' = cleanRuns

\* a state document is damaged: it no longer parses as JSON
CorruptStateFile(kind) ==
    /\ hcPc = "idle"
    /\ IF kind = "collection"
       THEN /\ collectionStateFile.exists /\ collectionStateFile.valid
            /\ collectionStateFile' = [collectionStateFile EXCEPT !.valid = FALSE]
            /\ parsingStateFile' = parsingStateFile
       ELSE /\ parsingStateFile.exists /\ parsingStateFile.valid
            /\ parsingStateFile' = [parsingStateFile EXCEPT !.valid = FALSE]
            /\ collectionStateFile' = collectionStateFile
    /\ heal' = NoHeal
    /\ UNCHANGED <<now, src, activated, collectionState, logsDir, metricsDir,
                   metrics, hcPc, healthStatus, pending, mirrors>>
    /\ probe' = probe
    /\ suspended' = suspended
    /\ lastRun' = NoRun
    /\ cleanRuns' = cleanRuns

\* a reset that removes the record whether or not fs.unlinkSync succeeds
RemovedAnyway(file, default, io) ==
    IF file.exists THEN NoDocument(default) ELSE file

\* StateManager.resetCollectionState / resetParsingState on one document:
\* the document is unlinked when it exists; a failing fs.unlinkSync is logged
\* and leaves the document as it was
ResetStateFile(file, default, io) ==
    IF file.exists /\ ~io.unlinkFails THEN NoDocument(default) ELSE file

\* StateManager.resetCollectionState
ResetCollectionState(io) ==
    /\ hcPc = "idle"
    /\ collectionStateFile' =
           ResetStateFile(collectionStateFile, DefaultCollectionState, io)
    /\ probe' = probe
    /\ suspended' = suspended
    /\ lastRun' = [NoRun EXCEPT !.origin = "resetCollection", !.io = io]
    /\ UNCHANGED <<now, src, activated, collectionState, parsingStateFile,
                   logsDir, metricsDir, metrics, hcPc, healthStatus, pending,
                   heal, cleanRuns, mirrors>>

\* StateManager.resetParsingState
ResetParsingState(io) ==
    /\ hcPc = "idle"
    /\ parsingStateFile' =
           ResetStateFile(parsingStateFile, DefaultParsingState, io)
    /\ probe' = probe
    /\ suspended' = suspended
    /\ lastRun' = [NoRun EXCEPT !.origin = "resetParsing", !.io = io]
    /\ UNCHANGED <<now, src, activated, collectionState, collectionStateFile,
                   logsDir, metricsDir, metrics, hcPc, healthStatus, pending,
                   heal, cleanRuns, mirrors>>

\* ------------------------------------------------- invocations that overlap
\* An invocation of collectCopilotLogs from the collection timer, as far as
\* `await saveMetricsToJSON` in parseAndSaveMetricsDirectly when it extracted
\* events (the reports are written, the parsing state is not yet saved), to
\* its end otherwise.
RunToAwait(r) ==
    /\ activated /\ hcPc = "idle" /\ ~suspended[r].active
    /\ \E res \in {CollectCopilotLogs(TRUE, FALSE, NoFault)} :
           /\ collectionState' = [loaded |-> TRUE, st |-> res.cs]
           /\ collectionStateFile' = res.csf
           /\ logsDir' = res.logsDir
           /\ metricsDir' = res.metricsDir
           /\ metrics' = res.metrics
           /\ IF res.events > 0
              THEN /\ parsingStateFile' = parsingStateFile
                   /\ mirrors' = [res.mirrors EXCEPT !["parsing"] = mirrors["parsing"]]
                   /\ suspended' =
                          [suspended EXCEPT ![r] =
                              [active |-> TRUE,
                               parsingState |->
                                   [res.psf.data EXCEPT !.lastParse =
                                       LoadParsingState(parsingStateFile).lastParse]]]
              ELSE /\ parsingStateFile' = res.psf
                   /\ mirrors' = res.mirrors
                   /\ suspended' = suspended
           /\ lastRun' = [NoRun EXCEPT !.ran = TRUE, !.origin = "auto",
                                       !.selected = res.selected,
                                       !.events = res.events,
                                       !.readFrom = res.readFrom]
    /\ cleanRuns' = IF cleanRuns < 2 THEN cleanRuns + 1 ELSE 2
    /\ probe' = probe
    /\ UNCHANGED <<now, src, activated, hcPc, healthStatus, pending, heal>>

\* the invocation continues after `await saveMetricsToJSON`: it stamps
\* lastParse and saves the parsing state it holds
RunAfterAwait(r) ==
    /\ suspended[r].active
    /\ parsingStateFile' =
           SaveParsingState([suspended[r].parsingState EXCEPT !.lastParse = now],
                            parsingStateFile, NoFault)
    /\ mirrors' = [mirrors EXCEPT !["parsing"] = MirrorAfterSave("parsing", @, NoFault)]
    /\ logsDir' = DirectoryAfterSave("parsing", logsDir, NoFault)
    /\ suspended' = [suspended EXCEPT ![r] = NotSuspended]
    /\ lastRun' = [NoRun EXCEPT !.origin = "resumed"]
    /\ probe' = probe
    /\ UNCHANGED <<now, src, activated, collectionState, collectionStateFile,
                   metricsDir, metrics, hcPc, healthStatus, pending, heal,
                   cleanRuns>>

\* ------------------------------------ health checker of the state documents
\* The HealthChecker that also inspects the two state documents and the log
\* copies under the root report directory.

\* countFiles(logsDir).logFileCount: `stored` is whether a date directory
\* holding a copy of a log is in the root report directory
LogFileCount(stored) == IF stored THEN 1 ELSE 0

\* checkCollectionState(...).trackedFilesCount: the length of processedFiles
\* in a document that parses, 0 otherwise
CollectionTrackedCount(file) ==
    IF file.exists /\ file.valid THEN Cardinality(file.data.processedFiles) ELSE 0

\* Object.keys(state.processedFiles): the files with an entry
TrackedFiles(state) == {f \in Files : state.processedFiles[f] > 0}

\* the tracked files for which fs.existsSync is false
MissingFiles(state) == {f \in TrackedFiles(state) : ~src[f].exists}

\* missingFilesCount >= deletionThreshold
DeletionThresholdMet(state) ==
    LET tracked == Cardinality(TrackedFiles(state))
        missing == Cardinality(MissingFiles(state))
    IN  IF tracked > 1 THEN 2 * missing >= tracked ELSE missing >= 1

\* delete state.processedFiles[missingFile] for every missing file
WithoutMissing(state) ==
    [state EXCEPT !.processedFiles =
        [f \in Files |-> IF f \in MissingFiles(state) THEN 0 ELSE @[f]]]

\* HealthChecker.checkParsingState: the document, its copy and the root
\* report directory afterwards, with trackedFilesCount
CheckParsingState(file, mirror, dirExists, logFileCount, io) ==
    LET same == [psf |-> file, mirror |-> mirror, logsDir |-> dirExists,
                 trackedFilesCount |-> 0]
    IN  IF ~file.exists THEN same
        ELSE IF ~file.valid
        THEN [same EXCEPT !.psf = ResetStateFile(file, DefaultParsingState, io)]
        ELSE LET state == file.data
                 tracked == Cardinality(TrackedFiles(state))
                 cleaned ==
                     IF DeletionThresholdMet(state)
                     THEN [same EXCEPT
                              !.psf = SaveParsingState(WithoutMissing(state), file, io),
                              !.mirror = MirrorAfterSave("parsing", mirror, io),
                              !.logsDir = DirectoryAfterSave("parsing", dirExists, io)]
                     ELSE same
             IN  IF state.lastParse # 0 /\ tracked > 0 /\ logFileCount = 0
                 THEN [cleaned EXCEPT
                          !.psf = ResetStateFile(cleaned.psf, DefaultParsingState, io),
                          !.trackedFilesCount = tracked]
                 ELSE [cleaned EXCEPT !.trackedFilesCount = tracked]

RECURSIVE ValidateAndUnlink(_, _)
\* HealthChecker.validateMetricsFiles, from the i-th date on: a corrupted
\* file is unlinked outside any try, so a failing unlink ends the check
ValidateAndUnlink(i, c) ==
    IF i > Len(DateOrder) \/ c.threw THEN c
    ELSE LET d == DateOrder[i]
         IN  IF c.metrics[d].st = "absent" \/ ParsesAsJSON(c.metrics[d])
             THEN ValidateAndUnlink(i + 1, c)
             ELSE IF CanUnlink(c.metrics[d])
             THEN ValidateAndUnlink(i + 1, [c EXCEPT !.metrics[d] = Unlinked(@)])
             ELSE [c EXCEPT !.threw = TRUE]

\* HealthChecker.checkEmptyDirectory: the root report directory holds no
\* date directory and no archive although files were tracked
EmptyButTracked(stored, collectionTrackedCount, parsingTrackedCount) ==
    ~stored /\ (collectionTrackedCount > 0 \/ parsingTrackedCount > 0)

\* HealthChecker.performHealthCheck with checkCollectionState,
\* checkParsingState, validateMetricsFiles and checkEmptyDirectory: the files
\* afterwards
CheckStateDocuments(stored, io) ==
    LET parsingCheck == CheckParsingState(parsingStateFile, mirrors["parsing"],
                                          GetPersistedLogsDirectory(logsDir),
                                          LogFileCount(stored), io)
        metricsCheck == ValidateAndUnlink(1, [metrics |-> metrics, threw |-> FALSE])
        reset == ~metricsCheck.threw
                    /\ EmptyButTracked(stored,
                                       CollectionTrackedCount(collectionStateFile),
                                       parsingCheck.trackedFilesCount)
    IN  [csf |-> IF reset
                 THEN ResetStateFile(collectionStateFile, DefaultCollectionState, io)
                 ELSE collectionStateFile,
         psf |-> IF reset
                 THEN ResetStateFile(parsingCheck.psf, DefaultParsingState, io)
                 ELSE parsingCheck.psf,
         mirror |-> parsingCheck.mirror,
         logsDir |-> parsingCheck.logsDir,
         metrics |-> metricsCheck.metrics,
         threw |-> metricsCheck.threw]

\* a call of performHealthCheck of this checker
PerformStateHealthCheck(stored, io) ==
    /\ hcPc = "idle"
    /\ stored => logsDir
    /\ \E r \in {CheckStateDocuments(stored, io)} :
           /\ collectionStateFile' = r.csf
           /\ parsingStateFile' = r.psf
           /\ mirrors' = [mirrors EXCEPT !["parsing"] = r.mirror]
           /\ logsDir' = r.logsDir
           /\ metrics' = r.metrics
           /\ probe' = probe
           /\ suspended' = suspended
           /\ lastRun' = [NoRun EXCEPT !.origin = "stateCheck", !.io = io,
                                       !.threw = r.threw, !.caught = r.threw]
    /\ UNCHANGED <<now, src, activated, collectionState, metricsDir, hcPc,
                   healthStatus, pending, heal, cleanRuns>>

\* the editor removes a source log
RemoveLog(f) ==
    /\ hcPc = "idle" /\ now < MaxTime
    /\ src[f].exists
    /\ now' = now + 1
    /\ src' = [src EXCEPT ![f] = [exists |-> FALSE, content |-> <<>>, mtime |-> 0]]
    /\ heal' = NoHeal
    /\ cleanRuns' = 0
    /\ UNCHANGED <<activated, collectionState, collectionStateFile,
                   parsingStateFile, logsDir, metricsDir, metrics, hcPc,
                   healthStatus, pending>>
    /\ probe' = probe
    /\ suspended' = suspended
    /\ lastRun' = NoRun
    /\ mirrors' = mirrors

\* the program with every file operation succeeding
Next ==
    \/ Activate(NoFault)
    \/ AutoCollectionTimer(NoFault)
    \/ CollectCommand(NoFault)
    \/ ForceRecollectAnswer(NoFault)
    \/ NoNewFilesAnswer
    \/ CompletionAnswer
    \/ HealthCheckTimer(NoFault)
    \/ HealthRecovery(NoFault)
    \/ HealthNoRecovery
    \/ \E f \in Files, l \in Lines : AppendLine(f, l)
    \/ \E f \in Files, c \in {<<>>} \cup {<<l>> : l \in Lines} : RotateLog(f, c)
    \/ DeleteMetricsDirectory
    \/ DeleteLogsDirectory
    \/ \E d \in Dates : DeleteReport(d)
    \/ \E d \in Dates, st \in {"corrupt", "locked"} : CorruptReport(d, st)

Spec == Init /\ [][Next]_vars

\* the callbacks of activate and of the two timers with file operations that
\* may fail and state documents that may be damaged
FaultNext ==
    \/ \E io \in RunFaults : Activate(io)
    \/ \E io \in RunFaults : AutoCollectionTimer(io)
    \/ CompletionAnswer
    \/ \E io \in CheckFaults : HealthCheckTimer(io)
    \/ \E io \in RunFaults : HealthRecovery(io)
    \/ HealthNoRecovery
    \/ \E f \in Files : AppendLine(f, "e")
    \/ DeleteLogsDirectory
    \/ \E k \in StateKinds : CorruptStateFile(k)

FaultSpec == Init /\ [][FaultNext]_vars

\* the state store under its callers: runs that save the two documents, an
\* environment that damages them, and the two resets
StoreNext ==
    \/ Activate(NoFault)
    \/ AutoCollectionTimer(NoFault)
    \/ \E f \in Files : AppendLine(f, "e")
    \/ \E k \in StateKinds : CorruptStateFile(k)
    \/ \E io \in ResetFaults : ResetCollectionState(io)
    \/ \E io \in ResetFaults : ResetParsingState(io)

StoreSpec == Init /\ [][StoreNext]_vars

\* The source logs only grow, by event lines, up to MaxGrowth lines each,
\* between the startup run and the runs of the collection timer.
GrowthNext ==
    \/ Activate(NoFault)
    \/ AutoCollectionTimer(NoFault)
    \/ \E f \in Files : AppendUpTo(f, "e", MaxGrowth)

GrowthSpec == Init /\ [][GrowthNext]_vars

\* invocations of the collection timer that give way to each other at
\* `await saveMetricsToJSON`, over source logs that only grow
OverlapNext ==
    \/ Activate(NoFault)
    \/ \E f \in Files : AppendLine(f, "e")
    \/ \E r \in Invocations : RunToAwait(r)
    \/ \E r \in Invocations : RunAfterAwait(r)

OverlapSpec == Init /\ [][OverlapNext]_vars

\* the health checker of the state documents between the runs that save
\* them, over source logs that come and go and documents and reports that
\* may be damaged
StateCheckNext ==
    \/ Activate(NoFault)
    \/ AutoCollectionTimer(NoFault)
    \/ \E f \in Files : AppendLine(f, "e")
    \/ \E f \in Files : RemoveLog(f)
    \/ \E k \in StateKinds : CorruptStateFile(k)
    \/ \E d \in Dates, st \in {"corrupt", "locked"} : CorruptReport(d, st)
    \/ \E stored \in BOOLEAN, io \in ResetFaults : PerformStateHealthCheck(stored, io)

StateCheckSpec == Init /\ [][StateCheckNext]_vars

\* parseChatLine(line, userName) returns
ApplyParseChatLine ==
    /\ probe.fn = "parseChatLine" /\ ~probe.applied
    /\ probe' = [probe EXCEPT !.applied = TRUE,
                               !.event = ParseChatTokens(probe.chat, UserName)]
    /\ UNCHANGED program

\* parseCopilotLine(line, userName) returns
ApplyParseCopilotLine ==
    /\ probe.fn = "parseCopilotLine" /\ ~probe.applied
    /\ probe' = [probe EXCEPT !.applied = TRUE,
                               !.event = ParseCopilotTokens(probe.copilot, UserName)]
    /\ UNCHANGED program

\* CopilotParser.aggregate(records) returns
ApplyAggregate ==
    /\ probe.fn = "aggregate" /\ ~probe.applied
    /\ probe' = [probe EXCEPT !.applied = TRUE, !.rows = Aggregate(probe.events)]
    /\ UNCHANGED program

\* the functions of CopilotParser, each called once on an argument drawn
\* from the calls under probe
ParserInit == Constructed /\ probe \in ProbeInputs

ParserNext ==
    \/ ApplyParseChatLine
    \/ ApplyParseCopilotLine
    \/ ApplyAggregate

ParserSpec == ParserInit /\ [][ParserNext]_vars

\* ------------------------------------------------------------- properties
\* the steps of the health-check timer's callback
HealthCheckStep == hcPc = "idle" /\ hcPc' = "checked"
CallbackEndStep == hcPc = "checked" /\ hcPc' = "idle"

\* the cursors before a run
CollectionCursor(f) == InitializeState.fileSizes[f]
ParsingCursor(f) == LoadParsingState(parsingStateFile).processedFiles[f]

\* C1: a run of collectCopilotLogs that starts when a run has completed and
\* no source log has changed since extracts zero events and leaves every
\* report file as it was.
IdempotentIngestion ==
    [][(cleanRuns >= 1 /\ lastRun'.ran)
          => (lastRun'.events = 0 /\ metrics' = metrics)]_vars

\* C1, the case: a forced run over logs that an earlier run has ingested and
\* that have not changed since has selected files and extracted nothing.
SecondRunOverIngestedLogs ==
    /\ cleanRuns = 2 /\ lastRun.ran /\ lastRun.forceAll
    /\ lastRun.selected # {} /\ lastRun.events = 0
    /\ \E f \in lastRun.selected : "e" \in {src[f].content[i] : i \in 1..Len(src[f].content)}
    /\ \E d \in Dates : metrics[d].st = "ok"

\* C2 as stated: after a run, the collection cursor of every file the run
\* selected and the parsing cursor of every file the run read are at least
\* their values before the run and equal the length of the file.
CursorMonotonicity ==
    [][lastRun'.ran =>
          \A f \in Files :
              /\ f \in lastRun'.selected =>
                    /\ collectionState'.st.fileSizes[f] >= CollectionCursor(f)
                    /\ collectionState'.st.fileSizes[f] = ByteLen(src[f].content)
              /\ lastRun'.readFrom[f] >= 0 =>
                    /\ parsingStateFile'.data.processedFiles[f] >= ParsingCursor(f)
                    /\ parsingStateFile'.data.processedFiles[f] = CharLen(src[f].content)]_vars

\* C2, amended: after a run, the collection cursor of every file the run
\* selected equals the size of the file in bytes, in memory and on disk, and
\* the parsing cursor of every file the run read equals the length of the
\* file in characters; each is at least its value before the run unless the
\* file is now shorter than that value (it was truncated or replaced).
CursorsEqualLength ==
    [][lastRun'.ran =>
          \A f \in Files :
              /\ f \in lastRun'.selected =>
                    /\ collectionState'.st.fileSizes[f] = ByteLen(src[f].content)
                    /\ collectionStateFile'.data.fileSizes[f] = ByteLen(src[f].content)
                    /\ ByteLen(src[f].content) >= CollectionCursor(f)
                          => collectionState'.st.fileSizes[f] >= CollectionCursor(f)
              /\ lastRun'.readFrom[f] >= 0 =>
                    /\ parsingStateFile'.data.processedFiles[f] = CharLen(src[f].content)
                    /\ CharLen(src[f].content) >= ParsingCursor(f)
                          => parsingStateFile'.data.processedFiles[f] >= ParsingCursor(f)]_vars

\* C2, the case: a run has read a file from a cursor above zero and moved
\* both cursors to the end of the file.
CursorAdvancedFromSuffix ==
    /\ lastRun.ran
    /\ \E f \in lastRun.selected :
           /\ lastRun.readFrom[f] > 0
           /\ parsingStateFile.data.processedFiles[f] > lastRun.readFrom[f]
           /\ parsingStateFile.data.processedFiles[f] = CharLen(src[f].content)
           /\ collectionState.st.fileSizes[f] = ByteLen(src[f].content)

\* C3: a run that selects a file that is not empty and whose parsing cursor
\* exceeds the size of the file reads the file from offset 0: it does not skip the file and does not
\* read it from the old cursor.
TruncatedFileReadFromStart ==
    [][lastRun'.ran =>
          \A f \in lastRun'.selected :
              (src[f].content # <<>> /\ ParsingCursor(f) > ByteLen(src[f].content))
                  => lastRun'.readFrom[f] = 0]_vars

\* C4: when every report was deleted after a parse, the source logs have not
\* changed, and a health check and the forced run it requested have run,
\* then every report that was there before the deletion exists again with
\* its rows, and a health check reports healthy.
SelfHealingAfterDeletion ==
    heal.phase = "recollected" =>
        /\ \A d \in Dates : heal.snapshot[d].st = "ok" => metrics[d] = heal.snapshot[d]
        /\ PerformHealthCheck(NoFault).status.healthy

\* C5: the callback of the health-check timer goes on with a forced run of
\* collectCopilotLogs when the status it got has needsRecollection, and with
\* no run when it has not.
RecoveryFollowsFlag ==
    [][CallbackEndStep =>
          /\ lastRun'.ran <=> healthStatus.needsRecollection
          /\ lastRun'.ran => (lastRun'.forceAll /\ lastRun'.origin = "health")]_vars

\* C5, the case: the callback has made its forced run over existing logs.
RecoveryRunMade ==
    /\ lastRun.ran /\ lastRun.origin = "health" /\ lastRun.forceAll
    /\ lastRun.selected # {}

\* the elements of a sequence
Range(seq) == {seq[i] : i \in 1..Len(seq)}

\* parsingState.lastParse as the health check loads it
LastParse == LoadParsingState(parsingStateFile).lastParse

\* C6: performHealthCheck starts no run of collectCopilotLogs and writes no
\* report row: the step that makes the check leaves the cursors, the source
\* logs and the dialogs alone, every report is as it was or is removed, and
\* what the check found is handed to the caller in the status.
HealthCheckOnlySignals ==
    [][HealthCheckStep =>
          /\ ~lastRun'.ran
          /\ UNCHANGED <<src, collectionState, collectionStateFile,
                         parsingStateFile, metricsDir, pending>>
          /\ \A d \in Dates : metrics'[d] = metrics[d] \/ metrics'[d] = NoReport
          /\ healthStatus' = PerformHealthCheck(NoFault).status]_vars

\* C6, the case: a check has returned needsRecollection to its caller, over
\* ingested logs, and no run has started.
SignalledWithoutRun ==
    /\ hcPc = "checked" /\ healthStatus.needsRecollection
    /\ ~lastRun.ran /\ collectionStateFile.exists
    /\ \A d \in Dates : metrics[d].st = "absent"

\* C7: the status of a health check made when <root>/metrics does not exist
\* has exactly the issue 'Metrics directory was deleted' and
\* needsRecollection when lastParse > 0, and is healthy, without issues and
\* without needsRecollection when lastParse = 0.
NoMetricsDirectoryStatus ==
    (hcPc = "checked" /\ ~metricsDir) =>
        IF LastParse > 0
        THEN /\ healthStatus.issues = <<Issue("Metrics directory was deleted", "")>>
             /\ healthStatus.needsRecollection
             /\ ~healthStatus.healthy
        ELSE /\ healthStatus.healthy
             /\ healthStatus.issues = <<>>
             /\ ~healthStatus.needsRecollection

\* C7, the case: a check has found the metrics directory missing after a parse.
MetricsDirectoryFoundMissing ==
    /\ hcPc = "checked" /\ ~metricsDir /\ LastParse > 0
    /\ Len(healthStatus.issues) = 1

\* C8: a health check that starts when the root report directory does not
\* exist recreates the directory, records the issue 'Logs directory was
\* deleted' and returns needsRecollection.
MissingRootFlagged ==
    [][(HealthCheckStep /\ ~logsDir) =>
          /\ logsDir'
          /\ Issue("Logs directory was deleted", "") \in Range(healthStatus'.issues)
          /\ healthStatus'.needsRecollection]_vars

\* C9 as stated: a health check deletes every metrics file that does not
\* parse, records an issue for it and sets needsRecollection, and leaves no
\* metrics file that does not parse.
CorruptedReportsDeleted ==
    [][HealthCheckStep =>
          /\ \A d \in Dates :
                 metrics[d].st \in {"corrupt", "locked"} =>
                     /\ metrics'[d] = NoReport
                     /\ Issue("Corrupted metrics file", d) \in Range(healthStatus'.issues)
                     /\ healthStatus'.needsRecollection
          /\ \A d \in Dates : metrics'[d].st \in {"absent", "ok"}]_vars

\* C9, amended: for every metrics file that does not parse a health check
\* records an issue and sets needsRecollection, and returns its status; it
\* deletes the file when the unlink succeeds and leaves it, with a warning,
\* when the unlink fails, so that the metrics files that do not parse after
\* the check are those the check could not delete.
CorruptedReportsFlagged ==
    [][HealthCheckStep =>
          /\ \A d \in Dates :
                 metrics[d].st \in {"corrupt", "locked"} =>
                     /\ Issue("Corrupted metrics file", d) \in Range(healthStatus'.issues)
                     /\ healthStatus'.needsRecollection
                     /\ ~healthStatus'.healthy
                     /\ IF metrics[d].st = "corrupt"
                        THEN /\ metrics'[d] = NoReport
                             /\ Issue("Deleted corrupted file", d)
                                    \in Range(healthStatus'.warnings)
                        ELSE /\ metrics'[d] = metrics[d]
                             /\ Issue("Could not delete corrupted file", d)
                                    \in Range(healthStatus'.warnings)
          /\ \A d \in Dates :
                 metrics'[d].st \notin {"absent", "ok"} => metrics[d].st = "locked"]_vars

\* C9, the case: a check has deleted a metrics file that did not parse.
CorruptedReportRemoved ==
    /\ hcPc = "checked" /\ healthStatus.needsRecollection
    /\ \E d \in Dates :
           /\ Issue("Deleted corrupted file", d) \in Range(healthStatus.warnings)
           /\ metrics[d] = NoReport

AllDeletedFlagged ==
    Issue("All metrics files were deleted", "") \in Range(healthStatus.issues)

\* C10 as stated: when <root>/metrics exists and holds no metrics file that
\* parses after the validation, the check flags 'All metrics files were
\* deleted' with needsRecollection exactly when lastParse > 0.
NoValidMetricsFlagged ==
    (hcPc = "checked" /\ metricsDir /\ \A d \in Dates : metrics[d].st # "ok") =>
        ((AllDeletedFlagged /\ healthStatus.needsRecollection) <=> LastParse > 0)

\* C10, amended: when <root>/metrics exists, the check flags 'All metrics
\* files were deleted', with needsRecollection, exactly when no metrics file
\* is left in the directory after the validation (a file that does not parse
\* and could not be deleted is left) and lastParse > 0.
NoMetricsLeftFlagged ==
    (hcPc = "checked" /\ metricsDir) =>
        /\ AllDeletedFlagged <=>
               ((\A d \in Dates : metrics[d].st = "absent") /\ LastParse > 0)
        /\ AllDeletedFlagged => healthStatus.needsRecollection

\* C10, the case: a check has found the metrics directory empty after a
\* parse, having removed the last file itself or not.
EmptyMetricsDirectoryFlagged ==
    /\ hcPc = "checked" /\ metricsDir /\ LastParse > 0
    /\ \A d \in Dates : metrics[d].st = "absent"
    /\ AllDeletedFlagged

\* the rows a run aggregates from the files it reads
BatchOf(run) ==
    Aggregate(RecordsOf({f \in Files : run.readFrom[f] >= 0},
                        LoadParsingState(parsingStateFile)))

\* C12: when a run writes a batch holding a row for a reduced key (source,
\* servedBy, action) for which the date's report already holds a row, the
\* written report holds exactly one row for that key and it is the row of the
\* batch: its numRequests is the batch's, never the sum with the old row's.
MergeOverwrites ==
    [][(lastRun'.ran /\ lastRun'.events > 0) =>
          \A i \in 1..Len(BatchOf(lastRun')) :
              LET new == BatchOf(lastRun')[i]
                  old == ExistingMetrics(metrics[new.date])
                  written == metrics'[new.date].rows
                  key(row) == <<row.source, row.servedBy, row.action>>
              IN  (\E j \in 1..Len(old) : key(old[j]) = key(new)) =>
                      /\ Cardinality({j \in 1..Len(written) : key(written[j]) = key(new)}) = 1
                      /\ \A j \in 1..Len(written) :
                             key(written[j]) = key(new) => written[j] = new]_vars

\* C12, the case: a run has read the second line of a log whose first line an
\* earlier run had reported, and the report holds the one request of the
\* second line.
OldRowOverwritten ==
    /\ lastRun.ran /\ lastRun.events = 1
    /\ lastRun.readFrom["cop"] > 0 /\ lastRun.readFrom["chat"] = -1
    /\ "D1" \in lastRun.hadReport
    /\ src["cop"].content = <<"e", "e">>
    /\ metrics["D1"].st = "ok"
    /\ Len(metrics["D1"].rows) = 1
    /\ metrics["D1"].rows[1].numRequests = 1

\* an invocation of collectCopilotLogs has not completed: it awaits the
\* answer to the dialog of handleNoNewFiles or of showCompletionMessage
InvocationInProgress == pending.noNew + pending.done > 0

\* C15 as stated: an invocation of collectCopilotLogs started by startup, the
\* auto-collection timer, a health recovery or the manual command begins only
\* when no earlier invocation is still in progress.
SingleInvocationInProgress ==
    [][(lastRun'.ran /\ lastRun'.origin \in {"startup", "auto", "command", "health"})
          => ~InvocationInProgress]_vars

FailedCheckStillReports ==
    (hcPc = "checked" /\ healthStatus.error) =>
        /\ healthStatus.issues # <<>>
        /\ (~metricsDir /\ LastParse > 0) =>
               /\ Issue("Metrics directory was deleted", "") \in Range(healthStatus.issues)
               /\ healthStatus.needsRecollection

\* the files a run with the given forceAll selects and parses when every
\* file operation succeeds
ToParse(forceAll) ==
    FilterNewParsedFiles(
        IF forceAll THEN FindCopilotLogFiles
        ELSE FilterNewFiles(FindCopilotLogFiles, InitializeState),
        LoadParsingState(parsingStateFile))

\* the files of a run whose fs.statSync or fs.readFileSync fails
Unreadable(run) == run.io.statFails \cup run.io.readFails

\* C13 as stated: a run in which a source file is unreadable is not aborted:
\* every other file it selects is still read, and the events of that file
\* are written to the report of their date.
UnreadableFileSkipped ==
    [][(lastRun'.ran /\ Unreadable(lastRun') # {} /\ lastRun'.io.saveFails = {}) =>
          /\ ~lastRun'.threw
          /\ \A f \in ToParse(lastRun'.forceAll) \ Unreadable(lastRun') :
                /\ lastRun'.readFrom[f] >= 0
                /\ \A rec \in Range(ParseFileIncremental(f, LoadParsingState(parsingStateFile))) :
                       /\ metrics'[rec.date].st = "ok"
                       /\ \E i \in 1..Len(metrics'[rec.date].rows) :
                              metrics'[rec.date].rows[i].source = rec.source]_vars

\* parseAndSaveMetricsDirectly reads the copilot files before the chat files
ParseOrder == <<"cop", "chat">>

\* C14 as stated: when reading a file fails in a run, the parsing cursor of
\* every file the run had read before it is persisted as the run ends: it is
\* the length of that file.
PartialProgressPersisted ==
    [][lastRun'.ran =>
          \A i, j \in 1..Len(ParseOrder) :
              (/\ i < j
               /\ {ParseOrder[i], ParseOrder[j]} \subseteq ToParse(lastRun'.forceAll)
               /\ lastRun'.io.readFails = {ParseOrder[j]}) =>
                  /\ parsingStateFile'.valid
                  /\ parsingStateFile'.data.processedFiles[ParseOrder[i]]
                         = CharLen(src[ParseOrder[i]].content)]_vars

\* C17 as stated: a run started by the auto-collection timer or by the
\* recovery of the health-check timer shows no failure notification and opens
\* no dialog.
TimerRunsStaySilent ==
    [][(lastRun'.ran /\ lastRun'.origin \in {"auto", "health"}) =>
          /\ ~lastRun'.errorShown
          /\ lastRun'.dialog = "none"
          /\ pending' = pending]_vars

\* the timer callbacks can start: the extension is active and no callback of
\* the health-check timer is unfinished (the guards of AutoCollectionTimer
\* and HealthCheckTimer)
TimersCanFire == activated /\ hcPc = "idle"

StateLoadNeverRaises ==
    /\ ~(collectionStateFile.exists /\ collectionStateFile.valid) =>
           LoadCollectionState(collectionStateFile)
               = [lastCollection |-> 0, processedFiles |-> {},
                  fileSizes |-> [f \in Files |-> 0]]
    /\ ~(parsingStateFile.exists /\ parsingStateFile.valid) =>
           LoadParsingState(parsingStateFile)
               = [processedFiles |-> [f \in Files |-> 0], lastParse |-> 0]
    /\ (lastRun.ran /\ lastRun.damaged # {} /\ lastRun.io = NoFault) =>
           /\ ~lastRun.threw /\ ~lastRun.parseError
           /\ "parsing" \in lastRun.damaged =>
                  \A f \in Files : lastRun.readFrom[f] \in {-1, 0}
    /\ (hcPc = "checked" /\ healthStatus.error) => ~logsDir

\* C18, the case: a run that started when parsing_state.json did not parse
\* has read a log from offset 0, without an error, and has written the
\* document again.
RunOverDamagedState ==
    /\ lastRun.ran /\ "parsing" \in lastRun.damaged
    /\ ~lastRun.threw /\ ~lastRun.parseError
    /\ \E f \in lastRun.selected :
           lastRun.readFrom[f] = 0 /\ Len(src[f].content) = 2
    /\ parsingStateFile.exists /\ parsingStateFile.valid

\* C19: a run in which writing a state document fails does not throw and
\* reports no parse error; a run in which writing the copies into the report
\* directory fails does not throw either, and has written
\* collection-state.json with the files it selected and the time of the run,
\* and parsing_state.json with the length of every file it read, while no
\* copy is current.
SaveBestEffortMirrorHarmless ==
    /\ (lastRun.ran /\ lastRun.io.saveFails # {}) =>
           (~lastRun.threw /\ ~lastRun.parseError)
    /\ (lastRun.ran /\ lastRun.io.mirrorFails /\ lastRun.selected # {}) =>
           /\ ~lastRun.threw /\ ~lastRun.parseError
           /\ collectionStateFile.exists /\ collectionStateFile.valid
           /\ lastRun.selected \subseteq collectionStateFile.data.processedFiles
           /\ collectionStateFile.data.lastCollection = now
           /\ mirrors["collection"] # "current"
           /\ \A f \in Files :
                  lastRun.readFrom[f] >= 0 =>
                      /\ parsingStateFile.exists /\ parsingStateFile.valid
                      /\ parsingStateFile.data.processedFiles[f] = CharLen(src[f].content)
                      /\ mirrors["parsing"] # "current"

\* C19, the case: a run has saved both state documents while the copies,
\* written by an earlier run, could not be written again.
MirrorFailedStateSaved ==
    /\ lastRun.ran /\ lastRun.io.mirrorFails
    /\ lastRun.selected # {} /\ lastRun.events > 0
    /\ mirrors = [k \in StateKinds |-> "stale"]
    /\ collectionStateFile.data.lastCollection = now
    /\ parsingStateFile.data.lastParse = now

\* the step is a reset of the document `kind`
ResetStep(kind) ==
    lastRun'.origin = (IF kind = "collection" THEN "resetCollection" ELSE "resetParsing")

\* the state documents by kind, and what they load as
StateFileOf(kind) ==
    IF kind = "collection" THEN collectionStateFile ELSE parsingStateFile
LoadedOf(kind, file) ==
    IF kind = "collection" THEN LoadCollectionState(file) ELSE LoadParsingState(file)
DefaultOf(kind) ==
    IF kind = "collection"
    THEN [lastCollection |-> 0, processedFiles |-> {}, fileSizes |-> [f \in Files |-> 0]]
    ELSE [processedFiles |-> [f \in Files |-> 0], lastParse |-> 0]

\* C21 as stated: after a reset of a state kind the next load of that kind
\* returns its default, a reset of an absent record changes nothing, and the
\* record of the other kind is left as it was.
ResetGivesDefault ==
    [][\A k \in StateKinds :
          ResetStep(k) =>
              /\ LoadedOf(k, StateFileOf(k)') = DefaultOf(k)
              /\ ~StateFileOf(k).exists => StateFileOf(k)' = StateFileOf(k)
              /\ \A o \in StateKinds \ {k} : StateFileOf(o)' = StateFileOf(o)]_vars

\* C21, amended: a reset leaves the record of the other kind as it was and
\* changes nothing when its own record is absent; when fs.unlinkSync
\* succeeds its own record is absent afterwards and loads as the default,
\* and when fs.unlinkSync fails the record is as before the reset.
ResetBestEffort ==
    [][\A k \in StateKinds :
          ResetStep(k) =>
              /\ IF lastRun'.io.unlinkFails
                 THEN StateFileOf(k)' = StateFileOf(k)
                 ELSE /\ ~StateFileOf(k)'.exists
                      /\ LoadedOf(k, StateFileOf(k)') = DefaultOf(k)
              /\ ~StateFileOf(k).exists => StateFileOf(k)' = StateFileOf(k)
              /\ \A o \in StateKinds \ {k} : StateFileOf(o)' = StateFileOf(o)]_vars

\* C21, the case: parsing_state.json has been reset after a parse and is
\* gone, while collection-state.json still holds the files collected.
ParsingStateReset ==
    /\ lastRun.origin = "resetParsing" /\ ~lastRun.io.unlinkFails
    /\ ~parsingStateFile.exists
    /\ collectionStateFile.exists /\ collectionStateFile.valid
    /\ collectionStateFile.data.processedFiles # {}
    /\ \E d \in Dates : metrics[d].st = "ok"

\* C22: a run without forceAll selects exactly the located files whose size
\* exceeds the recorded collection cursor, or whose modification time is
\* after lastCollection, or whose name holds a date after lastCollection.
FilteringIsUnion ==
    [][(lastRun'.ran /\ ~lastRun'.forceAll) =>
          lastRun'.selected =
              {f \in Files :
                  /\ src[f].exists
                  /\ \/ ByteLen(src[f].content) > InitializeState.fileSizes[f]
                     \/ src[f].mtime > InitializeState.lastCollection
                     \/ (ParseLogTimestamp(f) # 0
                         /\ ParseLogTimestamp(f) > InitializeState.lastCollection)}]_vars

\* C22, the case: a run without forceAll has selected a file for its
\* modification time alone: the file was replaced by a shorter one, its size
\* does not exceed the cursor and its name holds no date.
SelectedForMtimeAlone ==
    /\ lastRun.ran /\ ~lastRun.forceAll
    /\ \E f \in lastRun.selected : lastRun.reasons[f] = {"mtime"}

\* C23 as stated: a run with forceAll reads every located file and passes it
\* through extraction, whatever the cursors and timestamps on record.
ForcedRunReadsEveryFile ==
    [][(lastRun'.ran /\ lastRun'.forceAll) =>
          \A f \in Files : src[f].exists => lastRun'.readFrom[f] >= 0]_vars

\* the number of lines of `c` after position `from` that hold an event
EventLinesAfter(c, from) == Cardinality({i \in (from + 1)..Len(c) : c[i] = "e"})

\* C24: a run reads a file from its persisted parsing cursor and moves the
\* cursor to the end of the file, the events it extracts are those of the
\* lines after the cursors and of no line before them, and no step other
\* than a run changes a parsing cursor: a line of a file that only grows is
\* handed to the extractor by at most one run.
SuffixOnlyExtraction ==
    [][IF lastRun'.ran
       THEN /\ \A f \in Files :
                  lastRun'.readFrom[f] >= 0 =>
                      /\ lastRun'.readFrom[f] = ParsingCursor(f)
                      /\ parsingStateFile'.data.processedFiles[f] = Len(src[f].content)
            /\ \A f \in Files :
                  lastRun'.readFrom[f] < 0 =>
                      parsingStateFile'.data.processedFiles[f] = ParsingCursor(f)
            /\ lastRun'.events =
                   (IF lastRun'.readFrom["cop"] >= 0
                    THEN EventLinesAfter(src["cop"].content, lastRun'.readFrom["cop"])
                    ELSE 0)
                   + (IF lastRun'.readFrom["chat"] >= 0
                      THEN EventLinesAfter(src["chat"].content, lastRun'.readFrom["chat"])
                      ELSE 0)
       ELSE parsingStateFile' = parsingStateFile]_vars

\* C24, the case: a run has read the chat log from its cursor after a line
\* was appended to it, and has extracted the one event of that line and not
\* the event of the first line again.
OnlyAppendedLineExtracted ==
    /\ lastRun.ran /\ lastRun.events = 1
    /\ lastRun.readFrom["chat"] = 1 /\ lastRun.readFrom["cop"] = -1
    /\ src["chat"].content = <<"e", "e">>
    /\ parsingStateFile.data.processedFiles["chat"] = 2

\* ---------------------------------------------------------------- C25
\* the groups and their counts, whatever the order of the rows
CountsOf(rows) == {<<RowAggKey(rows[i]), rows[i].numRequests>> : i \in 1..Len(rows)}

\* the events in the order a permutation of their positions puts them
Reordered(recs, p) == [i \in 1..Len(recs) |-> recs[p[i]]]

\* C25: aggregate returns exactly one row for each distinct
\* (date, source, servedBy, action) among its events, the row's numRequests is
\* the number of events of that group, and the groups and their counts are the
\* same for every order of the same events.
AggregateCountsGroups ==
    (probe.fn = "aggregate" /\ probe.applied) =>
        LET rows == probe.rows
            recs == probe.events
        IN  /\ \A i, j \in 1..Len(rows) :
                   RowAggKey(rows[i]) = RowAggKey(rows[j]) => i = j
            /\ {RowAggKey(rows[i]) : i \in 1..Len(rows)}
                   = {AggKey(recs[i]) : i \in 1..Len(recs)}
            /\ \A i \in 1..Len(rows) :
                   rows[i].numRequests
                       = Cardinality({j \in 1..Len(recs) :
                                         AggKey(recs[j]) = RowAggKey(rows[i])})
            /\ \A p \in Permutations(1..Len(recs)) :
                   CountsOf(Aggregate(Reordered(recs, p))) = CountsOf(rows)

\* three events aggregated, the first and the third of one group and the
\* second of another: two rows, one of them counting two
InterleavedGroupsCounted ==
    /\ probe.fn = "aggregate" /\ probe.applied
    /\ Len(probe.events) = 3
    /\ AggKey(probe.events[1]) = AggKey(probe.events[3])
    /\ AggKey(probe.events[1]) # AggKey(probe.events[2])
    /\ Len(probe.rows) = 2
    /\ probe.rows[1].numRequests = 2

\* ---------------------------------------------------------------- C26
\* the position of the last event of the group of a row
LastOfGroup(recs, row) ==
    CHOOSE j \in 1..Len(recs) :
        /\ AggKey(recs[j]) = RowAggKey(row)
        /\ \A k \in (j + 1)..Len(recs) : AggKey(recs[k]) # RowAggKey(row)

\* C26: every row aggregate returns carries the name of the last event of its
\* group in the order the events were given (company and team are assigned by
\* the same statements), and the ide of every row is the one literal
\* "Visual Studio Code", which no event carries.
AggregateLastWins ==
    (probe.fn = "aggregate" /\ probe.applied) =>
        \A i \in 1..Len(probe.rows) :
            /\ probe.rows[i].name = probe.events[LastOfGroup(probe.events, probe.rows[i])].name
            /\ probe.rows[i].ide = "Visual Studio Code"

\* three events of one group aggregated, the first two of one user and the
\* last of another: the row carries the name of the last
LastNameOfGroupKept ==
    /\ probe.fn = "aggregate" /\ probe.applied
    /\ Len(probe.events) = 3 /\ Len(probe.rows) = 1
    /\ probe.events[1].name = "Dev" /\ probe.events[2].name = "Dev"
    /\ probe.events[3].name = "Ann"
    /\ probe.rows[1].name = "Ann" /\ probe.rows[1].numRequests = 3

\* ---------------------------------------------------------------- C27
\* the positions of a request tag that a "success" token follows with three
\* further tokens, the second of them holding digits
MarkedPositions(line) ==
    {i \in 1..(Len(line.parts) - 4) :
        /\ line.parts[i] = ChatTag /\ line.parts[i + 1] = "success"
        /\ FirstDigits(line.parts[i + 3]) # "none"}

\* C27 as stated: parseChatLine returns an event exactly for the lines that
\* carry the request tag followed by the success token and then at least
\* three further tokens of which the second holds digits, with servedBy,
\* response time and action the three tokens after that success token.
ChatEventIffMarkerAndTokens ==
    (probe.fn = "parseChatLine" /\ probe.applied) =>
        /\ (probe.event # NoEvent) <=> (MarkedPositions(probe.chat) # {})
        /\ (probe.event # NoEvent) =>
               \E i \in MarkedPositions(probe.chat) :
                   /\ probe.event.served_by = probe.chat.parts[i + 2]
                   /\ probe.event.response_time = FirstDigits(probe.chat.parts[i + 3])
                   /\ probe.event.action = probe.chat.parts[i + 4]

\* the pieces of the line that are exactly "success", and the first of them
SuccessPieces(line) ==
    {i \in 1..Len(line.parts) :
        SplitParts(line)[i] = "success"}
FirstSuccessPiece(line) ==
    CHOOSE i \in SuccessPieces(line) : \A j \in SuccessPieces(line) : i <= j

\* C27, amended: parseChatLine returns an event exactly when the line begins
\* with a date, contains the request tag followed by a token that begins with
\* "success", and the first piece that is exactly "success" is followed by at
\* least three pieces of which the second holds digits; the date is the
\* leading date, servedBy and action are the first and the third piece after
\* that "success", the response time is the first run of digits of the second;
\* the example line gives gpt-4.1, 7006 and [panel/unknown] on its date.
ChatEventFromFirstSuccess ==
    (probe.fn = "parseChatLine" /\ probe.applied) =>
        LET line == probe.chat
            yields == /\ line.date # "none"
                      /\ IncludesMarker(line.parts)
                      /\ SuccessPieces(line) # {}
                      /\ FirstSuccessPiece(line) + 3 <= Len(line.parts)
                      /\ FirstDigits(line.parts[FirstSuccessPiece(line) + 2]) # "none"
        IN  /\ (probe.event # NoEvent) <=> yields
            /\ yields =>
                   /\ probe.event.date = line.date
                   /\ probe.event.source = "copilot-chat"
                   /\ probe.event.served_by = line.parts[FirstSuccessPiece(line) + 1]
                   /\ probe.event.response_time
                          = FirstDigits(line.parts[FirstSuccessPiece(line) + 2])
                   /\ probe.event.action = line.parts[FirstSuccessPiece(line) + 3]
            /\ line = ExampleChatLine =>
                   /\ probe.event.date = "D2"
                   /\ probe.event.served_by = "gpt-4.1"
                   /\ probe.event.response_time = "7006"
                   /\ probe.event.action = "[panel/unknown]"

\* parseChatLine has returned the event of the example line
ExampleChatLineParsed ==
    /\ probe.fn = "parseChatLine" /\ probe.applied
    /\ probe.chat = ExampleChatLine
    /\ probe.event = [date |-> "D2", source |-> "copilot-chat",
                      served_by |-> "gpt-4.1", action |-> "[panel/unknown]",
                      response_time |-> "7006", name |-> UserName]

\* ---------------------------------------------------------------- C28
\* C28: a line whose response-time text is not a well-formed number (only
\* dots, several dots) gives no event, and no event returned by parseCopilotLine
\* or parseChatLine has a response time that is not a number.
MalformedNumberYieldsNoEvent ==
    /\ (probe.fn = "parseCopilotLine" /\ probe.applied
            /\ ~WellFormedNumber(probe.copilot.duration)) =>
           probe.event = NoEvent
    /\ (probe.fn \in {"parseCopilotLine", "parseChatLine"} /\ probe.applied
            /\ probe.event # NoEvent) =>
           probe.event.response_time # "NaN"

\* ---------------------------------------------------------------- C29
\* C29: a run writes neither cursor set before the rows are merged into the
\* report files: when a run fails while the selected files are read and their
\* events extracted, the stored collection state and the stored parsing state
\* are what they were before the run.
FailedRunLeavesCursors ==
    [][(lastRun'.ran /\ lastRun'.parseError) =>
           /\ collectionStateFile' = collectionStateFile
           /\ parsingStateFile' = parsingStateFile]_vars

\* ---------------------------------------------------------------- C30
\* C30: the numRequests a date's report holds for a reduced key (source,
\* servedBy, action) is an integer of at least 1, and a completed run never
\* leaves it smaller than it was before the run.
NumRequestsMonotonic ==
    [][lastRun'.ran =>
          \A d \in Dates :
              /\ \A j \in 1..Len(ExistingMetrics(metrics'[d])) :
                     ExistingMetrics(metrics'[d])[j].numRequests \in Nat \ {0}
              /\ \A i \in 1..Len(ExistingMetrics(metrics[d])) :
                     \A j \in 1..Len(ExistingMetrics(metrics'[d])) :
                         ReducedKey(ExistingMetrics(metrics'[d])[j])
                                 = ReducedKey(ExistingMetrics(metrics[d])[i])
                             => ExistingMetrics(metrics'[d])[j].numRequests
                                    >= ExistingMetrics(metrics[d])[i].numRequests]_vars

\* a call of saveToPersistentStorage with one log of the date and file name
CallSaveToPersistentStorage(content, fault) ==
    /\ probe.fn = "saveToPersistentStorage" /\ probe.calls < MaxSaves
    /\ \E r \in {SaveToPersistentStorage(probe.daily, probe.hashes, content, fault)} :
           probe' = [probe EXCEPT !.applied = TRUE, !.calls = @ + 1,
                                  !.saved = content, !.daily = r.daily,
                                  !.hashes = r.hashes, !.newLines = r.newLines,
                                  !.threw = r.threw]
    /\ UNCHANGED program

\* persistent storage before the first save: no daily file, no .hashes file
StorageInit == Constructed /\ probe = [NoProbe EXCEPT !.fn = "saveToPersistentStorage"]

StorageNext ==
    \E content \in Contents, fault \in StorageFaults :
        CallSaveToPersistentStorage(content, fault)

StorageSpec == StorageInit /\ [][StorageNext]_vars

\* ---------------------------------------------------------------- C31
\* C31: a health check leaves the stored collection state as it is, removes
\* neither state document, and leaves the stored parsing cursor of every
\* source log that still exists, and lastParse, as they are.
HealthCheckKeepsState ==
    [][lastRun'.origin = "stateCheck" =>
          /\ collectionStateFile' = collectionStateFile
          /\ parsingStateFile'.exists = parsingStateFile.exists
          /\ LoadParsingState(parsingStateFile').lastParse
                 = LoadParsingState(parsingStateFile).lastParse
          /\ \A f \in Files :
                 src[f].exists =>
                     LoadParsingState(parsingStateFile').processedFiles[f]
                         = LoadParsingState(parsingStateFile).processedFiles[f]]_vars

\* ---------------------------------------------------------------- C32
\* C32: a call of saveToPersistentStorage that returns, with a content that
\* was saved before for the date and file name leaves the daily file and the .hashes
\* file as they are and reports 0 new lines; a call with a content not saved
\* before appends it to the daily file once and records its digest once.
ContentSavedOnce ==
    [][(probe'.calls = probe.calls + 1 /\ ~probe'.threw) =>
          IF \E i \in 1..Len(probe.daily) : probe.daily[i] = probe'.saved
          THEN /\ probe'.daily = probe.daily
               /\ probe'.hashes = probe.hashes
               /\ probe'.newLines = 0
          ELSE /\ probe'.daily = Append(probe.daily, probe'.saved)
               /\ probe'.hashes = Append(probe.hashes, MD5(probe'.saved))]_vars

RunFiltersAgainstStoredState ==
    [][(lastRun'.ran /\ ~collectionStateFile.exists) =>
           lastRun'.selected = FindCopilotLogFiles]_vars

\* ------------------------------------------------- report writer on its own
\* the batches given to saveMetricsToJSON: what aggregate returns for at most
\* MaxBatch events
Batches ==
    {Aggregate(e) : e \in UNION {[1..n -> ProbeEvents] : n \in 0..MaxBatch}}

\* a call of saveMetricsToJSON with one batch; it creates the metrics
\* directory (and the root report directory) when missing
CallSaveMetricsToJSON(batch) ==
    /\ probe.fn = "saveMetricsToJSON" /\ probe.calls < MaxSaves
    /\ metrics' = SaveMetricsToJSON(batch, metrics)
    /\ logsDir' = GetPersistedLogsDirectory(logsDir)
    /\ metricsDir' = TRUE
    /\ probe' = [probe EXCEPT !.applied = TRUE, !.calls = @ + 1, !.rows = batch]
    /\ lastRun' = NoRun
    /\ heal' = NoHeal
    /\ UNCHANGED <<now, src, activated, collectionState, collectionStateFile,
                   parsingStateFile, hcPc, healthStatus, pending, cleanRuns,
                   mirrors, suspended>>

\* the report directory before the first report is written
ReportInit == Constructed /\ probe = [NoProbe EXCEPT !.fn = "saveMetricsToJSON"]

ReportNext ==
    \/ \E batch \in Batches : CallSaveMetricsToJSON(batch)
    \/ \E d \in Dates : CorruptReport(d, "corrupt")

ReportSpec == ReportInit /\ [][ReportNext]_vars

\* the rows of a batch that go to the report of a date
BatchOfDate(batch, d) == SelectSeq(batch, LAMBDA row : row.date = d)

\* ---------------------------------------------------------------- C35
\* C35: every report file holds at most one row per reduced key (source,
\* servedBy, action), and every row of metrics_<D>.json has date D.
ReportRowsUniqueAndDated ==
    \A d \in Dates :
        /\ \A i, j \in 1..Len(metrics[d].rows) :
               ReducedKey(metrics[d].rows[i]) = ReducedKey(metrics[d].rows[j]) => i = j
        /\ \A i \in 1..Len(metrics[d].rows) : metrics[d].rows[i].date = d

\* a report of two rows after a second call: a row of the last batch next to
\* a row of an earlier batch
ReportRewrittenWithSameKey ==
    /\ probe.fn = "saveMetricsToJSON" /\ probe.calls >= 2
    /\ \E d \in Dates :
           /\ Len(metrics[d].rows) = 2
           /\ \E i \in 1..2 :
                  /\ metrics[d].rows[i].numRequests = 1
                  /\ metrics[d].rows[i] \in {probe.rows[k] : k \in 1..Len(probe.rows)}
           /\ \E i \in 1..2 :
                  metrics[d].rows[i] \notin {probe.rows[k] : k \in 1..Len(probe.rows)}

\* ---------------------------------------------------------------- C36
\* C36: a call of saveMetricsToJSON leaves the report of every date that has
\* no row in the batch as it is, and in the report of a date of the batch
\* every row that was there and whose reduced key is not in the batch of the
\* date is still there, unchanged.
MergeKeepsOtherRows ==
    [][probe'.calls = probe.calls + 1 =>
          \A d \in Dates :
              \E batch \in {BatchOfDate(probe'.rows, d)} :
                  IF batch = <<>> THEN metrics'[d] = metrics[d]
                  ELSE \A i \in 1..Len(metrics[d].rows) :
                           (\A k \in 1..Len(batch) :
                                ReducedKey(batch[k]) # ReducedKey(metrics[d].rows[i]))
                               => \E j \in 1..Len(metrics'[d].rows) :
                                      metrics'[d].rows[j] = metrics[d].rows[i]]_vars

\* after a call with a batch of one date only: the report of that date holds
\* a row of a key that is not in the batch, and the other date has a report
OtherRowAndOtherDateKept ==
    /\ probe.fn = "saveMetricsToJSON" /\ probe.calls >= 3
    /\ \E d, o \in Dates :
           /\ BatchOfDate(probe.rows, d) # <<>> /\ BatchOfDate(probe.rows, o) = <<>>
           /\ metrics[o].st = "ok" /\ metrics[o].rows # <<>>
           /\ \E i \in 1..Len(metrics[d].rows) :
                  \A k \in 1..Len(probe.rows) :
                      ReducedKey(probe.rows[k]) # ReducedKey(metrics[d].rows[i])

\* ---------------------------------------------------------------- C37
\* C37: the stored lastParse takes a new value above 0 only in a run that
\* extracted at least one event, met no error while parsing and left a
\* report file with rows (so lastParse > 0, which is 0 at the start, means a
\* report has been written before); a run that read new content and
\* extracted no event moves parsing cursors and leaves lastParse as it was.
LastParseOnlyAfterReportWrite ==
    [][/\ (LastParse' # LastParse /\ LastParse' > 0) =>
              /\ lastRun'.ran /\ lastRun'.events > 0 /\ ~lastRun'.parseError
              /\ \E d \in Dates : metrics'[d].st = "ok" /\ metrics'[d].rows # <<>>
       /\ (lastRun'.ran /\ lastRun'.events = 0) => LastParse' = LastParse]_vars

\* a run that read new content of a source log and extracted no event from
\* it, after an earlier run that wrote a report: the cursor of the log has
\* moved over the content and lastParse is that of the earlier run
ZeroEventRunAfterParse ==
    /\ lastRun.ran /\ lastRun.events = 0 /\ ~lastRun.parseError
    /\ LastParse > 0 /\ LastParse < now
    /\ \E f \in Files :
           /\ lastRun.readFrom[f] >= 0
           /\ ParsingCursor(f) > lastRun.readFrom[f]

\* ------------------------------------------------------- timer at rest
\* the interval of the auto-collection timer passes while no source log
\* changes: Date.now() is later at the next firing
TimePasses ==
    /\ hcPc = "idle" /\ now < MaxTime
    /\ now' = now + 1
    /\ lastRun' = NoRun
    /\ UNCHANGED <<src, activated, collectionState, collectionStateFile,
                   parsingStateFile, logsDir, metricsDir, metrics, hcPc,
                   healthStatus, pending, heal, cleanRuns, mirrors>>
    /\ probe' = probe
    /\ suspended' = suspended

\* the startup run and the auto-collection timer with logs that grow and
\* intervals in which nothing happens
IdleNext ==
    \/ Activate(NoFault)
    \/ AutoCollectionTimer(NoFault)
    \/ \E f \in Files, l \in Lines : AppendLine(f, l)
    \/ TimePasses

IdleSpec == Init /\ [][IdleNext]_vars

\* ---------------------------------------------------------------- C38
\* C38: an automatic run whose filter selects no file leaves the collection
\* state (stored and in memory, lastCollection and every cursor), the stored
\* parsing state and every report file as they were.
EmptySelectionChangesNothing ==
    [][(/\ lastRun'.ran /\ IsAutoOrigin(lastRun'.origin) /\ ~lastRun'.forceAll
        /\ FilterNewFiles(FindCopilotLogFiles, InitializeState) = {}) =>
           /\ collectionStateFile' = collectionStateFile
           /\ InitializeState' = InitializeState
           /\ parsingStateFile' = parsingStateFile
           /\ metrics' = metrics]_vars

\* an automatic run that found a source log, selected none, and came after a
\* run that had stored a collection state at an earlier time
AutoRunSelectedNothing ==
    /\ lastRun.ran /\ lastRun.origin = "auto" /\ ~lastRun.forceAll
    /\ lastRun.selected = {} /\ ~lastRun.threw
    /\ FindCopilotLogFiles # {}
    /\ collectionStateFile.exists
    /\ LoadCollectionState(collectionStateFile).lastCollection < now
    /\ LastParse > 0

\* ---------------------------------------------------------------- C39
\* C39: in the status performHealthCheck has returned, healthy is true
\* exactly when the issues list is empty, needsRecollection implies not
\* healthy, and metricsFileCount is the number of metrics files in the
\* metrics directory after the check.
HealthStatusConsistent ==
    hcPc = "checked" =>
        /\ healthStatus.healthy <=> (healthStatus.issues = <<>>)
        /\ healthStatus.needsRecollection => ~healthStatus.healthy
        /\ healthStatus.metricsFileCount
               = Cardinality({d \in Dates : metrics[d].st # "absent"})

====
